---- MODULE Spec2Model ----
(***************************************************************************)
(* Frame lifecycle of the moss engine (src/src/engine.c): the engine       *)
(* state g_engine, moss_engine_init / moss_engine_deinit /                 *)
(* moss_engine_draw_frame, swapchain recreation, and the collaborators     *)
(* that act asynchronously to the driving thread (the graphics queue that  *)
(* completes submissions and signals fences, the windowing system that     *)
(* resizes or minimizes the window and delivers the resize callback).      *)
(*                                                                         *)
(* Handles are abstracted to what the driver knows about them:             *)
(*   "null"  VK_NULL_HANDLE / NULL                                         *)
(*   "live"  a created, not yet destroyed object                           *)
(*   "dead"  a non-null value whose object was destroyed (dangling)        *)
(* The code itself can only tell "null" from non-null.                     *)
(***************************************************************************)
EXTENDS Integers, Sequences, FiniteSets, TLC

MAX_FRAMES_IN_FLIGHT == 2
MAX_SWAPCHAIN_IMAGE_COUNT == 4

\* Bounds of the environment.
MaxWidth == 1             \* the window's width ranges over 0..MaxWidth
MinReportedImages == 2    \* the smallest image count the driver reports
MaxReportedImages == 5    \* the largest image count the driver reports
VertexBytes == 2          \* sizeof (g_verticies), in bytes
MaxBytes == 2             \* the largest buffer requested from the crate manager
MaxQueueFamily == 1       \* queue family indices range over 0..MaxQueueFamily
MaxMemoryTypes == 2       \* the largest number of memory types of a device
MaxExtent == 2            \* extents of a surface range over 0..MaxExtent
MaxQueueFamilyCount == 3  \* a physical device reports at most this many queue families

Slots == 0 .. (MAX_FRAMES_IN_FLIGHT - 1)
ImageIdx == 0 .. (MAX_SWAPCHAIN_IMAGE_COUNT - 1)
Widths == 0 .. MaxWidth
Heights == {0, 1}         \* the window's height: collapsed or not
Extents == Widths \X Heights

\* VkResult values the frame loop distinguishes; VK_ERROR_DEVICE_LOST stands
\* for every driver error that is not an invalidation result.
VkFrameResults ==
  {"VK_SUCCESS", "VK_SUBOPTIMAL_KHR", "VK_ERROR_OUT_OF_DATE_KHR", "VK_ERROR_DEVICE_LOST"}

\* VkSurfaceCapabilitiesKHR.currentExtent.width value meaning "any extent".
\* The code compares with UINT32_MAX; the largest integer the model checker
\* represents stands for it (no arithmetic is done on it).
UINT32_MAX == 2147483647
ANY_EXTENT == <<UINT32_MAX, UINT32_MAX>>

\* VkFormat values: VK_FORMAT_UNDEFINED and VK_FORMAT_B8G8R8A8_SRGB.
VK_FORMAT_UNDEFINED == 0
VK_FORMAT_B8G8R8A8_SRGB == 50

\* VkSharingMode values; EXCLUSIVE is the zero value.
VK_SHARING_MODE_EXCLUSIVE == "VK_SHARING_MODE_EXCLUSIVE"
VK_SHARING_MODE_CONCURRENT == "VK_SHARING_MODE_CONCURRENT"

\* VkMemoryPropertyFlagBits the code names.
VK_MEMORY_PROPERTY_DEVICE_LOCAL_BIT == 1
VK_MEMORY_PROPERTY_HOST_VISIBLE_BIT == 2
VK_MEMORY_PROPERTY_HOST_COHERENT_BIT == 4

VARIABLES
  window,                       \* g_engine.window
  window_size,                  \* size the windowing system reports
  device,                       \* g_engine.device
  swapchain,                    \* g_engine.swapchain
  swapchain_image_count,        \* g_engine.swapchain_image_count
  swapchain_image_format,       \* g_engine.swapchain_image_format
  swapchain_extent,             \* g_engine.swapchain_extent
  swapchain_image_views,        \* g_engine.swapchain_image_views[]
  swapchain_framebuffers,       \* g_engine.swapchain_framebuffers[]
  framebuffer_resize_requsted,  \* g_engine.framebuffer_resize_requsted
  in_flight_fences,             \* g_engine.in_flight_fences[]: state of each fence
  current_frame,                \* g_engine.current_frame
  pending,                      \* graphics queue: unfinished submissions per slot
  pc,                           \* position of the driving thread
  recreate_args,                \* width, height passed to moss__recreate_swapchain
  recreate_caller,              \* which branch of draw_frame called recreate
  current_image_index,          \* draw_frame local
  call,                         \* what the current draw_frame call has done so far
  resources,                    \* the other handles of g_engine (by field name)
  trace,                        \* the last public call: its name, result and driver calls
  unit                          \* a call made to a helper on its own: its inputs and outputs

vars ==
  << window, window_size, device, swapchain, swapchain_image_count,
     swapchain_image_format, swapchain_extent, swapchain_image_views,
     swapchain_framebuffers, framebuffer_resize_requsted, in_flight_fences,
     current_frame, pending, pc, recreate_args, recreate_caller,
     current_image_index, call, resources, trace, unit >>

lifecycle_vars == << resources, trace >>

frame_vars ==
  << window, window_size, device, swapchain, swapchain_image_count,
     swapchain_image_format, swapchain_extent, swapchain_image_views,
     swapchain_framebuffers, framebuffer_resize_requsted, in_flight_fences,
     current_frame, pending, pc, recreate_args, recreate_caller,
     current_image_index, call >>

swapchain_vars ==
  << swapchain, swapchain_image_count, swapchain_image_format, swapchain_extent,
     swapchain_image_views, swapchain_framebuffers >>

NullHandles == [i \in ImageIdx |-> "null"]

NullSlots == [i \in Slots |-> "null"]

\* A Moss__Crate as zero-initialisation and moss__destroy_crate leave it.
NullCrate ==
  [ buffer                          |-> "null",
    memory                          |-> "null",
    size                            |-> 0,
    original_device                 |-> "null",
    original_physical_device        |-> "null",
    sharing_mode                    |-> VK_SHARING_MODE_EXCLUSIVE,
    shared_queue_family_index_count |-> 0,
    shared_queue_family_indices     |-> <<0, 0>> ]

\* g_engine's handles besides the window, the device, the swapchain and the
\* fences, and its buffer sharing mode, as the static initializer leaves
\* them; stuffy_app is the state of the windowing application
\* (stuffy_app_init / stuffy_app_deinit).
NullResources ==
  [ stuffy_app                 |-> "null",
    api_instance               |-> "null",
    surface                    |-> "null",
    render_pass                |-> "null",
    pipeline_layout            |-> "null",
    graphics_pipeline          |-> "null",
    general_command_pool       |-> "null",
    transfer_command_pool      |-> "null",
    vertex_crate               |-> NullCrate,
    image_available_semaphores |-> NullSlots,
    render_finished_semaphores |-> NullSlots,
    buffer_sharing_mode             |-> VK_SHARING_MODE_EXCLUSIVE,
    shared_queue_family_index_count |-> 0,
    shared_queue_family_indices     |-> <<0, 0>> ]

\* The record of the last public call; NoTrace before the first one.  after
\* is the public call that preceded it (kept for init and deinit only).
NoTrace == [op |-> "none", after |-> "none", result |-> "none", calls |-> <<>>]

\* No helper was called on its own; memory_types is the list of memory types
\* of the physical device a crate was created on.
NoUnit == [in |-> <<>>, out |-> <<>>, memory_types |-> <<>>]

\* The record of one draw_frame call; NoCall before the first call.
NoCall ==
  [ frame             |-> 0,
    acquire           |-> "none",
    recorded          |-> FALSE,
    record_failed     |-> FALSE,
    submit            |-> "none",
    present           |-> "none",
    resize_at_present |-> FALSE,
    recreated         |-> FALSE,
    recreate_result   |-> "none",
    result            |-> "none" ]

(***************************************************************************)
(* The driver's side: calls is the sequence of create / destroy calls of    *)
(* the public call in progress, each << verb, kind, handle >> with the     *)
(* state of the handle passed or returned: "live" (the handle of an object *)
(* that exists), "dead" (of an object that was destroyed), "garbage" (a    *)
(* value that never was a handle), "null".                                 *)
(***************************************************************************)
\* A vkCreate* / open call that succeeds.
Create(s, kind) ==
  [s EXCEPT !.calls = Append(@, <<"create", kind, "live">>)]

\* A vkCreate* / open call that fails: nothing is created.
CreateFailed(s, kind) ==
  [s EXCEPT !.calls = Append(@, <<"create", kind, "null">>)]

\* A vkDestroy* / close call given handle h.
Destroy(s, kind, h) ==
  [s EXCEPT !.calls = Append(@, <<"destroy", kind, h>>)]

RECURSIVE DestroyEach(_, _, _)
DestroyEach(s, kind, handles) ==
  IF handles = <<>> THEN s
  ELSE DestroyEach(Destroy(s, kind, Head(handles)), kind, Tail(handles))

\* The last handle of a live object is dropped: the object stays alive in the
\* driver and cannot be destroyed any more.  It is kept in the calls as a
\* leak.
Lose(s, kind) ==
  [s EXCEPT !.calls = Append(@, <<"leak", kind, "live">>)]

RECURSIVE CreateEach(_, _, _)
CreateEach(s, kind, count) ==
  IF count = 0 THEN s ELSE CreateEach(Create(s, kind), kind, count - 1)

(***************************************************************************)
(* Swapchain manager.  The swapchain part of g_engine is handled as a      *)
(* record, together with the driver's side, so that cleanup / create /     *)
(* image views / framebuffers compose inside one handler.                  *)
(***************************************************************************)
SwapchainState ==
  [ swapchain   |-> swapchain,
    image_count |-> swapchain_image_count,
    format      |-> swapchain_image_format,
    extent      |-> swapchain_extent,
    views       |-> swapchain_image_views,
    fbs         |-> swapchain_framebuffers,
    calls       |-> trace.calls ]

SetSwapchainState(s) ==
  /\ swapchain' = s.swapchain
  /\ swapchain_image_count' = s.image_count
  /\ swapchain_image_format' = s.format
  /\ swapchain_extent' = s.extent
  /\ swapchain_image_views' = s.views
  /\ swapchain_framebuffers' = s.fbs

\* moss__cleanup_swapchain_framebuffers / _image_views: every non-null entry
\* below image_count is destroyed and nulled.
CleanupHandleArray(arr, count) ==
  [i \in ImageIdx |-> IF i < count /\ arr[i] # "null" THEN "null" ELSE arr[i]]

\* The handles the cleanup loop of lines 1559-1565 / 1570-1576 passes to the
\* destroy call, in order.  With image_count above the array size the loop
\* reads past the array; garbage tells whether those reads find non-null
\* values.
LoopHandles(arr, count, garbage) ==
  LET inside == IF count < MAX_SWAPCHAIN_IMAGE_COUNT THEN count
                ELSE MAX_SWAPCHAIN_IMAGE_COUNT
      beyond == IF garbage /\ count > MAX_SWAPCHAIN_IMAGE_COUNT
                  THEN count - MAX_SWAPCHAIN_IMAGE_COUNT ELSE 0
  IN  SelectSeq([i \in 1 .. inside |-> arr[i - 1]], LAMBDA h : h # "null")
        \o [i \in 1 .. beyond |-> "garbage"]

\* The values on which the reads past the arrays may fall.
OverrunReads(count) ==
  IF count > MAX_SWAPCHAIN_IMAGE_COUNT THEN BOOLEAN ELSE {FALSE}

\* A cleanup that destroys the chain before what was made from it.
CleanupOrder_ChainFirst == << "swapchain", "image_view", "framebuffer" >>

\* The order of the three cleanups in moss__cleanup_swapchain.
CleanupOrder == << "framebuffer", "image_view", "swapchain" >>

\* A cleanup that forgets the chain handle.
CleanupHandles_KeepChain(s, kind, garbage) ==
  CASE kind = "framebuffer" -> LoopHandles(s.fbs, s.image_count, garbage)
    [] kind = "image_view"  -> LoopHandles(s.views, s.image_count, garbage)
    [] kind = "swapchain"   -> <<>>

CleanupHandles(s, kind, garbage) ==
  CASE kind = "framebuffer" -> LoopHandles(s.fbs, s.image_count, garbage)
    [] kind = "image_view"  -> LoopHandles(s.views, s.image_count, garbage)
    [] kind = "swapchain"   -> IF s.swapchain # "null" THEN << s.swapchain >> ELSE <<>>

moss__cleanup_swapchain(s, garbage) ==
  LET a == DestroyEach(s, CleanupOrder[1], CleanupHandles(s, CleanupOrder[1], garbage))
      b == DestroyEach(a, CleanupOrder[2], CleanupHandles(s, CleanupOrder[2], garbage))
      c == DestroyEach(b, CleanupOrder[3], CleanupHandles(s, CleanupOrder[3], garbage))
  IN  [ c EXCEPT
          !.fbs         = CleanupHandleArray(s.fbs, s.image_count),
          !.views       = CleanupHandleArray(s.views, s.image_count),
          !.swapchain   = "null",
          !.image_count = 0,
          !.format      = VK_FORMAT_UNDEFINED,
          !.extent      = <<0, 0>> ]

IsMinimized(size) == size[1] = 0 \/ size[2] = 0

\* Surface capabilities the driver may report for a window of size ws: the
\* surface either takes any extent or has the fixed extent of the visible
\* window.
SurfaceCapabilities(ws) ==
  { [currentExtent |-> c, minImageExtent |-> <<1, 1>>, maxImageExtent |-> <<MaxWidth, 1>>]
      : c \in {ANY_EXTENT} \cup (IF IsMinimized(ws) THEN {} ELSE {ws}) }

\* A clamp that forgets the upper bound.
Clamp_LowerOnly(v, lo, hi) == IF v < lo THEN lo ELSE v

Clamp(v, lo, hi) ==
  LET a == IF v < lo THEN lo ELSE v
  IN  IF a > hi THEN hi ELSE a

moss__choose_swap_extent(capabilities, width, height) ==
  IF capabilities.currentExtent[1] # UINT32_MAX
    THEN capabilities.currentExtent
    ELSE << Clamp(width, capabilities.minImageExtent[1], capabilities.maxImageExtent[1]),
            Clamp(height, capabilities.minImageExtent[2], capabilities.maxImageExtent[2]) >>

\* The first vkGetSwapchainImagesKHR call (lines 1083-1088), kept in the
\* calls with whether the count it reports is above the arrays' size.
GetSwapchainImageCount(s, n) ==
  [s EXCEPT !.calls = Append(@, << "call", "vkGetSwapchainImagesKHR",
                                   IF n > MAX_SWAPCHAIN_IMAGE_COUNT
                                     THEN "above_cap" ELSE "within_cap" >>),
            !.image_count = n]

\* A swapchain creation that keeps the first MAX_SWAPCHAIN_IMAGE_COUNT images
\* when the driver reports more.
moss__create_swapchain_Truncate(s, width, height, capabilities, ok, n) ==
  IF ~ok
    THEN [state |-> CreateFailed(s, "swapchain"), result |-> "Error"]
  ELSE [state |-> [GetSwapchainImageCount(Create(s, "swapchain"), n) EXCEPT
                     !.swapchain = "live",
                     !.image_count = IF n > MAX_SWAPCHAIN_IMAGE_COUNT
                                       THEN MAX_SWAPCHAIN_IMAGE_COUNT ELSE n,
                     !.format = VK_FORMAT_B8G8R8A8_SRGB,
                     !.extent = moss__choose_swap_extent(capabilities, width, height)],
        result |-> "Success"]

\* moss__create_swapchain: ok is the result of vkCreateSwapchainKHR, n the
\* image count vkGetSwapchainImagesKHR reports.
moss__create_swapchain(s, width, height, capabilities, ok, n) ==
  IF ~ok
    THEN [state |-> CreateFailed(s, "swapchain"), result |-> "Error"]
  ELSE IF n > MAX_SWAPCHAIN_IMAGE_COUNT
    THEN [state |-> [GetSwapchainImageCount(Create(s, "swapchain"), n)
                       EXCEPT !.swapchain = "live"],
          result |-> "Error"]
  ELSE [state |-> [GetSwapchainImageCount(Create(s, "swapchain"), n) EXCEPT
                     !.swapchain = "live",
                     !.format = VK_FORMAT_B8G8R8A8_SRGB,
                     !.extent = moss__choose_swap_extent(capabilities, width, height)],
        result |-> "Success"]

\* moss__create_image_views / moss__create_framebuffers: k creations succeed
\* before the first failure (k >= count: all succeed).  On failure the k
\* objects created so far are destroyed, their array entries keep the handle.
CreateHandleArray(arr, count, k) ==
  IF k >= count
    THEN [arr |-> [i \in ImageIdx |-> IF i < count THEN "live" ELSE arr[i]],
          result |-> "Success"]
    ELSE [arr |-> [i \in ImageIdx |-> IF i < k THEN "dead" ELSE arr[i]],
          result |-> "Error"]

\* The driver calls of such a loop: k (or count) creations, and on failure
\* the failed creation followed by the destruction of the k created objects.
CreateLoopCalls(s, kind, count, k) ==
  IF k >= count
    THEN CreateEach(s, kind, count)
    ELSE DestroyEach(CreateFailed(CreateEach(s, kind, k), kind), kind,
                     [j \in 1 .. k |-> "live"])

moss__create_image_views(s, k) ==
  LET r == CreateHandleArray(s.views, s.image_count, k)
  IN  [state |-> [CreateLoopCalls(s, "image_view", s.image_count, k)
                    EXCEPT !.views = r.arr],
       result |-> r.result]

moss__create_framebuffers(s, k) ==
  LET r == CreateHandleArray(s.fbs, s.image_count, k)
  IN  [state |-> [CreateLoopCalls(s, "framebuffer", s.image_count, k)
                    EXCEPT !.fbs = r.arr],
       result |-> r.result]

\* The part of moss__recreate_swapchain after the device is idle.  The
\* outcome of each stage (cleanup cl, swapchain c, image views v) is computed
\* once and handed to the next.
RecreateBuild(s, width, height, capabilities, ok, n, kv, kf, garbage) ==
  LET Framebuffers(v) ==
        IF v.result # "Success" THEN v ELSE moss__create_framebuffers(v.state, kf)
      ImageViews(c) ==
        IF c.result # "Success" THEN c
        ELSE CHOOSE f \in { Framebuffers(v) :
                              v \in {moss__create_image_views(c.state, kv)} } : TRUE
      Swapchain(cl) ==
        CHOOSE f \in { ImageViews(c) :
                         c \in {moss__create_swapchain(cl, width, height,
                                                       capabilities, ok, n)} } : TRUE
  IN  CHOOSE f \in { Swapchain(cl) : cl \in {moss__cleanup_swapchain(s, garbage)} } : TRUE


(***************************************************************************)
(* Initial state: the static initializer of g_engine; no window, no GPU    *)
(* work.                                                                   *)
(***************************************************************************)
Init ==
  /\ window = "null"
  /\ window_size = <<0, 0>>
  /\ device = "null"
  /\ swapchain = "null"
  /\ swapchain_image_count = 0
  /\ swapchain_image_format = VK_FORMAT_UNDEFINED
  /\ swapchain_extent = <<0, 0>>
  /\ swapchain_image_views = NullHandles
  /\ swapchain_framebuffers = NullHandles
  /\ framebuffer_resize_requsted = FALSE
  /\ in_flight_fences = [s \in Slots |-> "null"]
  /\ current_frame = 0
  /\ pending = [s \in Slots |-> 0]
  /\ pc = "idle"
  /\ recreate_args = <<0, 0>>
  /\ recreate_caller = "none"
  /\ current_image_index = 0
  /\ call = NoCall
  /\ resources = NullResources
  /\ trace = NoTrace
  /\ unit = NoUnit

\* A device-idle wait that returns at once.
GpuIdle_NoWait == TRUE

\* vkDeviceWaitIdle has returned: nothing submitted is still executing.
GpuIdle == \A s \in Slots : pending[s] = 0

(***************************************************************************)
(* The whole engine as one record, so that the steps of init and deinit    *)
(* compose: s is the swapchain manager's record (with the driver's side),  *)
(* r the other handles.                                                    *)
(***************************************************************************)
EngineState ==
  [ s             |-> [SwapchainState EXCEPT !.calls = <<>>],
    window        |-> window,
    device        |-> device,
    fences        |-> in_flight_fences,
    current_frame |-> current_frame,
    r             |-> resources ]

SetEngineState(e) ==
  /\ SetSwapchainState(e.s)
  /\ window' = e.window
  /\ device' = e.device
  /\ in_flight_fences' = e.fences
  /\ current_frame' = e.current_frame
  /\ resources' = e.r

Ok(e) == [state |-> e, result |-> "Success"]
Err(e) == [state |-> e, result |-> "Error"]

\* A call that another function of the engine makes, kept in the calls.
Mark(e, name) == [e EXCEPT !.s.calls = Append(@, <<"call", name, "none">>)]

\* The handle of a fence, whatever its state.
FenceHandle(f) == IF f = "null" THEN "null" ELSE "live"

\* The non-null handles of a per-slot array, in index order.
SlotHandles(arr) ==
  SelectSeq([i \in 1 .. MAX_FRAMES_IN_FLIGHT |-> arr[i - 1]], LAMBDA h : h # "null")

(***************************************************************************)
(* moss__destroy_crate: memory, then buffer, each if non-null, with the    *)
(* crate's original_device.  Called with no original_device recorded yet   *)
(* (from moss__create_crate's failure paths) the destroy calls name no     *)
(* device and destroy nothing; the handle is nulled all the same, so the   *)
(* object is lost.                                                         *)
(***************************************************************************)
DestroyWith(s, kind, h, dev) ==
  IF dev = "live" THEN Destroy(s, kind, h)
  ELSE LET c == [s EXCEPT !.calls = Append(@, <<"destroy_on_invalid_device", kind, h>>)]
       IN  IF h = "live" THEN Lose(c, kind) ELSE c

\* The same with the buffer destroyed before the memory is freed.
moss__destroy_crate_BufferFirst(s, crate) ==
  LET b == IF crate.buffer # "null"
             THEN DestroyWith(s, "buffer", crate.buffer, crate.original_device)
             ELSE s
      m == IF crate.memory # "null"
             THEN DestroyWith(b, "memory", crate.memory, crate.original_device)
             ELSE b
  IN  [s |-> m, crate |-> NullCrate]

moss__destroy_crate(s, crate) ==
  LET m == IF crate.memory # "null"
             THEN DestroyWith(s, "memory", crate.memory, crate.original_device)
             ELSE s
      b == IF crate.buffer # "null"
             THEN DestroyWith(m, "buffer", crate.buffer, crate.original_device)
             ELSE m
  IN  [s |-> b, crate |-> NullCrate]

(***************************************************************************)
(* moss__select_suitable_memory_type: memory_types is the list of          *)
(* propertyFlags of the physical device's memory types (index 0 first),    *)
(* type_filter and properties are bitmasks.                                *)
(***************************************************************************)
\* a & b.
RECURSIVE BitAnd(_, _)
BitAnd(a, b) ==
  IF a = 0 \/ b = 0 THEN 0
  ELSE (a % 2) * (b % 2) + 2 * BitAnd(a \div 2, b \div 2)

\* The loop of lines 47-56 from index i on.  On Error out_memory_type is not
\* written (shown as -1).
RECURSIVE ScanMemoryTypes(_, _, _, _)
ScanMemoryTypes(memory_types, type_filter, properties, i) ==
  IF i >= Len(memory_types)
    THEN [result |-> "Error", memory_type |-> -1]
  ELSE IF BitAnd(type_filter, 2^i) # 0
            /\ BitAnd(memory_types[i + 1], properties) = properties
    THEN [result |-> "Success", memory_type |-> i]
  ELSE ScanMemoryTypes(memory_types, type_filter, properties, i + 1)

\* The same scan with every memory type allowed, whatever the filter.
moss__select_suitable_memory_type_IgnoreFilter(memory_types, type_filter, properties) ==
  ScanMemoryTypes(memory_types, 2 ^ Len(memory_types) - 1, properties, 0)

moss__select_suitable_memory_type(memory_types, type_filter, properties) ==
  ScanMemoryTypes(memory_types, type_filter, properties, 0)

\* vkBindBufferMemory, kept in the calls with its result (which the code
\* does not look at).
BindBufferMemory(s, bind_ok) ==
  [s EXCEPT !.calls = Append(@, << "call", "vkBindBufferMemory",
                                   IF bind_ok THEN "ok" ELSE "failed" >>)]

\* Lines 104-114: the sharing mode and the queue family indices copied into
\* the crate (the indices only when there are some).
CopySharing(crate, info) ==
  [crate EXCEPT
     !.sharing_mode = info.sharing_mode,
     !.shared_queue_family_index_count = info.shared_queue_family_index_count,
     !.shared_queue_family_indices =
        IF info.shared_queue_family_index_count > 0
          THEN [i \in 1 .. 2 |->
                  IF i <= info.shared_queue_family_index_count
                    THEN info.shared_queue_family_indices[i] ELSE @[i]]
          ELSE @]

\* moss__create_crate (info, out_crate).  driver holds what the driver
\* answers: buffer_ok (vkCreateBuffer), requirements
\* (vkGetBufferMemoryRequirements: size, memoryTypeBits), memory_types (the
\* physical device's), allocate_ok (vkAllocateMemory), bind_ok
\* (vkBindBufferMemory).  The result holds the driver's side s, the crate
\* and the MossResult.
moss__create_crate(s, info, out_crate, driver) ==
  IF ~driver.buffer_ok
    THEN [s |-> CreateFailed(s, "buffer"), crate |-> out_crate, result |-> "Error"]
  ELSE
    LET c   == [out_crate EXCEPT !.buffer = "live", !.size = driver.requirements.size]
        sel == moss__select_suitable_memory_type(driver.memory_types,
                                                 driver.requirements.memoryTypeBits,
                                                 info.memory_properties)
    IN  IF sel.result # "Success"
          THEN LET d == moss__destroy_crate(Create(s, "buffer"), c)
               IN  [s |-> d.s, crate |-> d.crate, result |-> "Error"]
        ELSE IF ~driver.allocate_ok
          THEN LET d == moss__destroy_crate(CreateFailed(Create(s, "buffer"), "memory"), c)
               IN  [s |-> d.s, crate |-> d.crate, result |-> "Error"]
        ELSE [s |-> BindBufferMemory(Create(Create(s, "buffer"), "memory"),
                                     driver.bind_ok),
              crate |-> CopySharing([c EXCEPT
                                       !.memory = "live",
                                       !.original_device = info.device,
                                       !.original_physical_device = info.physical_device],
                                    info),
              result |-> "Success"]

\* What the uninitialized staging_crate of moss__fill_crate holds when its
\* creation failed before anything was written to it.
UninitializedCrate(garbage) ==
  IF garbage
    THEN [NullCrate EXCEPT !.buffer = "garbage", !.memory = "garbage",
                           !.original_device = "garbage",
                           !.original_physical_device = "garbage"]
    ELSE NullCrate

\* moss__copy_vk_buffer: a command buffer is allocated from the transfer pool
\* and freed on every path after its allocation.  fail is the injected
\* failure << function, index of its failing driver call >> (0:
\* vkAllocateCommandBuffers, 1: vkBeginCommandBuffer, 2: vkQueueSubmit, 3:
\* vkQueueWaitIdle failing once the queue has finished the copy, 4:
\* vkQueueWaitIdle failing while the queue still executes it).  The
\* submission and the wait are kept in the calls with their outcome.
moss__copy_vk_buffer(s, fail) ==
  LET Called(t, name, outcome) ==
        [t EXCEPT !.calls = Append(@, <<"call", name, outcome>>)]
      Free(t) == Destroy(t, "command_buffer", "live")
      index == IF fail[1] = "moss__copy_vk_buffer" THEN fail[2] ELSE -1
      allocated == Create(s, "command_buffer")
      submitted == Called(allocated, "vkQueueSubmit", "ok")
  IN  IF index = 0
        THEN [s |-> CreateFailed(s, "command_buffer"), result |-> "Error"]
      ELSE IF index = 1
        THEN [s |-> Free(allocated), result |-> "Error"]
      ELSE IF index = 2
        THEN [s |-> Free(Called(allocated, "vkQueueSubmit", "failed")),
              result |-> "Error"]
      ELSE IF index = 3
        THEN [s |-> Free(Called(submitted, "vkQueueWaitIdle", "failed_idle")),
              result |-> "Error"]
      ELSE IF index = 4
        THEN [s |-> Free(Called(submitted, "vkQueueWaitIdle", "failed_busy")),
              result |-> "Error"]
      ELSE [s |-> Free(Called(submitted, "vkQueueWaitIdle", "idle")),
            result |-> "Success"]

\* A crate variable goes out of scope with its handles not destroyed.
LoseCrate(s, crate) ==
  LET m == IF crate.memory = "live" THEN Lose(s, "memory") ELSE s
  IN  IF crate.buffer = "live" THEN Lose(m, "buffer") ELSE m

\* Lines 126-137: the creation info of the staging crate.
StagingCrateInfo(dst_crate) ==
  [ size                            |-> dst_crate.size,
    memory_properties               |-> VK_MEMORY_PROPERTY_HOST_VISIBLE_BIT
                                          + VK_MEMORY_PROPERTY_HOST_COHERENT_BIT,
    sharing_mode                    |-> dst_crate.sharing_mode,
    shared_queue_family_index_count |-> dst_crate.shared_queue_family_index_count,
    shared_queue_family_indices     |-> dst_crate.shared_queue_family_indices,
    device                          |-> dst_crate.original_device,
    physical_device                 |-> dst_crate.original_physical_device ]

\* The destination buffer's memory after the copy: the staging memory holds
\* the info.size bytes of the source that memcpy wrote (line 152) and, past
\* them, what the allocation held (stale); the copy moves staging.size bytes
\* (line 163).  Without a staging buffer the copy reads no valid memory.
CopiedMemory(info, staging, staged, stale) ==
  [i \in 1 .. info.destination_crate.size |->
     IF staged /\ i <= staging.size /\ i <= info.size /\ i <= Len(info.source_memory)
       THEN info.source_memory[i]
       ELSE stale]

\* moss__fill_crate (info): the staging crate is created (the result of its
\* creation is not looked at), the source is written to its memory, the copy
\* is submitted on the transfer pool, the staging crate is destroyed unless
\* the copy failed.  driver holds the driver's answers for the staging crate
\* (staging), the failure injected into the copy (fail), what the
\* uninitialized staging_crate holds (garbage), what memory that was
\* never written holds (stale) and whether mapping and writing the memory
\* of a staging crate that was not created ends the process (abort).  The
\* result holds the staging crate as its creation left it and as it is when
\* the function returns, and the destination's memory.
moss__fill_crate(s, info, driver) ==
  LET st == moss__create_crate(s, StagingCrateInfo(info.destination_crate),
                               UninitializedCrate(driver.garbage), driver.staging)
      cp == moss__copy_vk_buffer(st.s, driver.fail)
      d  == moss__destroy_crate(cp.s, st.crate)
  IN  IF st.result # "Success" /\ driver.abort
        THEN [s |-> LoseCrate(st.s, st.crate), result |-> "Aborted",
              staging_created |-> st.crate,
              staging |-> st.crate,
              destination_memory |->
                [i \in 1 .. info.destination_crate.size |-> driver.stale]]
      ELSE IF cp.result # "Success"
        THEN [s |-> LoseCrate(cp.s, st.crate), result |-> "Error",
              staging_created |-> st.crate,
              staging |-> st.crate,
              destination_memory |->
                [i \in 1 .. info.destination_crate.size |-> driver.stale]]
        ELSE [s |-> d.s, result |-> "Success",
              staging_created |-> st.crate,
              staging |-> d.crate,
              destination_memory |->
                CopiedMemory(info, st.crate, st.result = "Success", driver.stale)]

\* moss__create_graphics_pipeline: two shader modules, the layout, the
\* pipeline (failures 0 .. 3); the shader modules are destroyed on every
\* path, the layout is destroyed when the pipeline fails (its handle is left
\* in g_engine).
moss__create_graphics_pipeline(e, fail) ==
  LET s0 == e.s
  IN  IF fail = <<"moss__create_graphics_pipeline", 0>>
        THEN Err([e EXCEPT !.s = CreateFailed(s0, "shader_module")])
      ELSE IF fail = <<"moss__create_graphics_pipeline", 1>>
        THEN Err([e EXCEPT !.s =
               Destroy(CreateFailed(Create(s0, "shader_module"), "shader_module"),
                       "shader_module", "live")])
      ELSE IF fail = <<"moss__create_graphics_pipeline", 2>>
        THEN Err([e EXCEPT !.s =
               DestroyEach(CreateFailed(CreateEach(s0, "shader_module", 2),
                                        "pipeline_layout"),
                           "shader_module", <<"live", "live">>)])
      ELSE IF fail = <<"moss__create_graphics_pipeline", 3>>
        THEN Err([e EXCEPT
               !.s = Destroy(
                       DestroyEach(
                         CreateFailed(Create(CreateEach(s0, "shader_module", 2),
                                             "pipeline_layout"),
                                      "pipeline"),
                         "shader_module", <<"live", "live">>),
                       "pipeline_layout", "live"),
               !.r.pipeline_layout = "dead"])
      ELSE Ok([e EXCEPT
               !.s = DestroyEach(
                       Create(Create(CreateEach(s0, "shader_module", 2),
                                     "pipeline_layout"),
                              "pipeline"),
                       "shader_module", <<"live", "live">>),
               !.r.pipeline_layout = "live",
               !.r.graphics_pipeline = "live"])

\* One of the three creation loops of moss__create_synchronization_objects:
\* k objects are created before the first failure (k = 2: none fails); the
\* created ones stay in the array.
SlotLoopArray(k, value) == [i \in Slots |-> IF i < k THEN value ELSE "null"]

SlotLoopCalls(s, kind, k) ==
  IF k >= MAX_FRAMES_IN_FLIGHT THEN CreateEach(s, kind, MAX_FRAMES_IN_FLIGHT)
  ELSE CreateFailed(CreateEach(s, kind, k), kind)

FailIndex(fail, loop) ==
  IF fail[1] = loop THEN fail[2] ELSE MAX_FRAMES_IN_FLIGHT

moss__create_synchronization_objects(e, fail) ==
  LET ka == FailIndex(fail, "moss__create_image_available_semaphores")
      kr == FailIndex(fail, "moss__create_render_finished_semaphores")
      kf == FailIndex(fail, "moss__create_in_flight_fences")
      a  == [e EXCEPT !.s = SlotLoopCalls(@, "semaphore", ka),
                      !.r.image_available_semaphores = SlotLoopArray(ka, "live")]
      b  == [a EXCEPT !.s = SlotLoopCalls(@, "semaphore", kr),
                      !.r.render_finished_semaphores = SlotLoopArray(kr, "live")]
      c  == [b EXCEPT !.s = SlotLoopCalls(@, "fence", kf),
                      !.fences = SlotLoopArray(kf, "signaled")]
  IN  IF ka < MAX_FRAMES_IN_FLIGHT THEN Err(a)
      ELSE IF kr < MAX_FRAMES_IN_FLIGHT THEN Err(b)
      ELSE IF kf < MAX_FRAMES_IN_FLIGHT THEN Err(c)
      ELSE Ok(c)

\* moss__cleanup_synchronization_objects: fences, render-finished semaphores,
\* image-available semaphores; every non-null handle is destroyed and nulled.
moss__cleanup_synchronization_objects(e) ==
  LET a == DestroyEach(e.s, "fence", SlotHandles([i \in Slots |-> FenceHandle(e.fences[i])]))
      b == DestroyEach(a, "semaphore", SlotHandles(e.r.render_finished_semaphores))
      c == DestroyEach(b, "semaphore", SlotHandles(e.r.image_available_semaphores))
  IN  [e EXCEPT !.s = c,
                !.fences = NullSlots,
                !.r.render_finished_semaphores = NullSlots,
                !.r.image_available_semaphores = NullSlots]

(***************************************************************************)
(* moss_engine_deinit, after vkDeviceWaitIdle has returned.                *)
(***************************************************************************)
\* Destroys the handle g_engine.<field> if it is not null, and nulls it.
DestroyField(e, field, kind) ==
  IF e.r[field] # "null"
    THEN [e EXCEPT !.s = Destroy(@, kind, e.r[field]), !.r[field] = "null"]
    ELSE e

\* Lines 610-656: the part of deinit that runs with a non-null device.
DeinitDevice(e) ==
  LET a == DestroyField(e, "transfer_command_pool", "command_pool")
      b == DestroyField(a, "general_command_pool", "command_pool")
      c == moss__destroy_crate(b.s, b.r.vertex_crate)
      d == [b EXCEPT !.s = c.s, !.r.vertex_crate = c.crate]
      f == DestroyField(d, "graphics_pipeline", "pipeline")
      g == DestroyField(f, "pipeline_layout", "pipeline_layout")
      h == DestroyField(g, "render_pass", "render_pass")
  IN  [h EXCEPT !.s = Destroy(@, "device", h.device),
                !.device = "null"]

moss_engine_deinit(e, garbage) ==
  LET a == [e EXCEPT !.s = moss__cleanup_swapchain(@, garbage)]
      b == moss__cleanup_synchronization_objects(a)
      c == IF b.device # "null" THEN DeinitDevice(b) ELSE b
      d == DestroyField(c, "surface", "surface")
      f == DestroyField(d, "api_instance", "instance")
      g == IF f.window # "null"
             THEN [f EXCEPT !.s = Destroy(@, "window", f.window), !.window = "null"]
             ELSE f
  IN  [g EXCEPT !.s = Destroy(@, "app", g.r.stuffy_app),
                !.r.stuffy_app = "null",
                !.current_frame = 0]

DeinitEffect(e) ==
  /\ SetEngineState(e)
  /\ window_size' = <<0, 0>>

(***************************************************************************)
(* moss_engine_init: the creation steps in the order of lines 453-588; a   *)
(* failing step (but the first) calls moss_engine_deinit.  in holds what   *)
(* the window system and the driver answer: the window size w, h, the      *)
(* surface capabilities, the swapchain build outcome ok, n, kv, kf, the    *)
(* driver call that fails (fail) and what reads of unwritten memory find   *)
(* (garbage).                                                              *)
(***************************************************************************)
\* An init that builds the swapchain before the device.
InitOrder_SwapchainBeforeDevice ==
  << "stuffy_app", "window", "api_instance", "surface", "physical_device", "swapchain",
     "device", "image_views", "render_pass", "graphics_pipeline", "framebuffers",
     "general_command_pool", "transfer_command_pool", "vertex_crate",
     "fill_vertex_crate", "general_command_buffers", "synchronization_objects" >>

InitOrder ==
  << "stuffy_app", "window", "api_instance", "surface", "physical_device", "device",
     "swapchain", "image_views", "render_pass", "graphics_pipeline", "framebuffers",
     "general_command_pool", "transfer_command_pool", "vertex_crate",
     "fill_vertex_crate", "general_command_buffers", "synchronization_objects" >>

\* The same with the transfer family recorded twice.
moss__init_buffer_sharing_mode_TransferTwice(r, graphics_family, transfer_family) ==
  IF graphics_family = transfer_family
    THEN [r EXCEPT !.buffer_sharing_mode = VK_SHARING_MODE_EXCLUSIVE,
                   !.shared_queue_family_index_count = 0]
    ELSE [r EXCEPT !.buffer_sharing_mode = VK_SHARING_MODE_CONCURRENT,
                   !.shared_queue_family_indices = <<transfer_family, transfer_family>>,
                   !.shared_queue_family_index_count = 2]

\* moss__init_buffer_sharing_mode on the queue families found.
moss__init_buffer_sharing_mode(r, graphics_family, transfer_family) ==
  IF graphics_family = transfer_family
    THEN [r EXCEPT !.buffer_sharing_mode = VK_SHARING_MODE_EXCLUSIVE,
                   !.shared_queue_family_index_count = 0]
    ELSE [r EXCEPT !.buffer_sharing_mode = VK_SHARING_MODE_CONCURRENT,
                   !.shared_queue_family_indices = <<graphics_family, transfer_family>>,
                   !.shared_queue_family_index_count = 2]

\* The queue families moss__find_queue_families finds in the frame
\* lifecycle: one family serves graphics and transfer.
EngineQueueFamilies == [graphics_family |-> 0, transfer_family |-> 0]

\* Lines 1432-1439 (with the device as moss__create_crate (info, out_crate)
\* takes it): the creation info of the vertex crate.
VertexCrateInfo(r, dev) ==
  [ size                            |-> VertexBytes,
    memory_properties               |-> VK_MEMORY_PROPERTY_DEVICE_LOCAL_BIT,
    sharing_mode                    |-> r.buffer_sharing_mode,
    shared_queue_family_index_count |-> r.shared_queue_family_index_count,
    shared_queue_family_indices     |-> r.shared_queue_family_indices,
    device                          |-> dev,
    physical_device                 |-> "live" ]

\* g_verticies, as bytes.
Verticies == [i \in 1 .. VertexBytes |-> 1]

\* Lines 1455-1461.
VertexFillInfo(r) ==
  [ destination_crate |-> r.vertex_crate,
    source_memory     |-> Verticies,
    size              |-> VertexBytes ]

\* The driver's answers to a crate creation in which only the injected
\* failure fails (0: vkCreateBuffer, 1: vkAllocateMemory): the buffer needs
\* size bytes and the device has one memory type with every property.
CrateDriver(size, fail, which) ==
  [ buffer_ok    |-> fail # <<which, 0>>,
    requirements |-> [size |-> size, memoryTypeBits |-> 1],
    memory_types |-> << VK_MEMORY_PROPERTY_DEVICE_LOCAL_BIT
                          + VK_MEMORY_PROPERTY_HOST_VISIBLE_BIT
                          + VK_MEMORY_PROPERTY_HOST_COHERENT_BIT >>,
    allocate_ok  |-> fail # <<which, 1>>,
    bind_ok      |-> TRUE ]

\* A step that creates one object and stores its handle in g_engine.<field>.
CreateField(e, field, kind, failed) ==
  IF failed THEN Err([e EXCEPT !.s = CreateFailed(@, kind)])
  ELSE Ok([e EXCEPT !.s = Create(@, kind), !.r[field] = "live"])

\* Wraps a result of the swapchain manager into a result on the engine.
OnSwapchain(e, r) == [state |-> [e EXCEPT !.s = r.state], result |-> r.result]

InitStep(e, step, in) ==
  CASE step = "stuffy_app" ->
         CreateField(e, "stuffy_app", "app", in.fail = <<"moss__init_stuffy_app", 0>>)
    [] step = "window" ->
         IF in.fail = <<"moss__open_window", 0>>
           THEN Err([e EXCEPT !.s = CreateFailed(@, "window")])
           ELSE Ok([e EXCEPT !.s = Create(@, "window"), !.window = "live"])
    [] step = "api_instance" ->
         CreateField(e, "api_instance", "instance", in.fail = <<"moss__create_api_instance", 0>>)
    [] step = "surface" ->
         CreateField(e, "surface", "surface", in.fail = <<"moss__create_surface", 0>>)
    [] step = "physical_device" ->
         IF in.fail = <<"moss__select_physical_device", 0>> THEN Err(e) ELSE Ok(e)
    [] step = "device" ->
         IF in.fail = <<"moss__create_logical_device", 0>>
           THEN Err([e EXCEPT !.s = CreateFailed(@, "device")])
           ELSE Ok([e EXCEPT !.s = Create(@, "device"), !.device = "live",
                             !.r = moss__init_buffer_sharing_mode(
                                     @, EngineQueueFamilies.graphics_family,
                                     EngineQueueFamilies.transfer_family)])
    [] step = "swapchain" ->
         OnSwapchain(e, moss__create_swapchain(e.s, in.w, in.h, in.capabilities,
                                               in.ok, in.n))
    [] step = "image_views" ->
         OnSwapchain(e, moss__create_image_views(e.s, in.kv))
    [] step = "render_pass" ->
         CreateField(e, "render_pass", "render_pass", in.fail = <<"moss__create_render_pass", 0>>)
    [] step = "graphics_pipeline" ->
         moss__create_graphics_pipeline(e, in.fail)
    [] step = "framebuffers" ->
         OnSwapchain(e, moss__create_framebuffers(e.s, in.kf))
    [] step = "general_command_pool" ->
         CreateField(e, "general_command_pool", "command_pool",
                     in.fail = <<"moss__create_command_pool", 0>>)
    [] step = "transfer_command_pool" ->
         CreateField(e, "transfer_command_pool", "command_pool",
                     in.fail = <<"moss__create_command_pool", 1>>)
    [] step = "vertex_crate" ->
         LET c == moss__create_crate(e.s, VertexCrateInfo(e.r, e.device),
                                     e.r.vertex_crate,
                                     CrateDriver(VertexBytes, in.fail, "vertex_crate"))
         IN  [state |-> [e EXCEPT !.s = c.s, !.r.vertex_crate = c.crate],
              result |-> c.result]
    [] step = "fill_vertex_crate" ->
         LET f == moss__fill_crate(e.s, VertexFillInfo(e.r),
                                   [ staging |-> CrateDriver(e.r.vertex_crate.size,
                                                             in.fail, "staging_crate"),
                                     fail    |-> in.fail,
                                     garbage |-> in.garbage,
                                     stale   |-> 0,
                                     abort   |-> FALSE ])
         IN  [state |-> [e EXCEPT !.s = f.s], result |-> f.result]
    [] step = "general_command_buffers" ->
         IF in.fail = <<"moss__create_general_command_buffers", 0>>
           THEN Err([e EXCEPT !.s = CreateFailed(@, "command_buffer")])
           ELSE Ok([e EXCEPT !.s = CreateEach(@, "command_buffer", MAX_FRAMES_IN_FLIGHT)])
    [] step = "synchronization_objects" ->
         moss__create_synchronization_objects(e, in.fail)

RECURSIVE RunInit(_, _, _)
RunInit(e, i, in) ==
  IF i > Len(InitOrder) THEN Ok([e EXCEPT !.current_frame = 0])
  ELSE \* r is the outcome of step i, computed once
       CHOOSE out \in
         { IF r.result = "Success" THEN RunInit(r.state, i + 1, in)
           ELSE IF i = 1 THEN r
           ELSE Err(moss_engine_deinit(Mark(r.state, "moss_engine_deinit"), in.garbage))
           : r \in {InitStep(e, InitOrder[i], in)} } : TRUE

\* What the driver does during one swapchain build: ok is the result of
\* vkCreateSwapchainKHR, n the image count it reports, kv / kf the number of
\* image views / framebuffers created before the first failure (n: none
\* fails; the first or the last creation is the one that fails).  Fields
\* that the build never reaches are fixed.
ReportedImageCounts == {MinReportedImages, MaxReportedImages}

BuildOutcomes ==
  { o \in [ok : BOOLEAN, n : ReportedImageCounts, kv : 0 .. MaxReportedImages,
            kf : 0 .. MaxReportedImages] :
      /\ o.kv \in {0, o.n - 1, o.n}
      /\ o.kf \in {0, o.n - 1, o.n}
      /\ ~o.ok => (o.n = MinReportedImages /\ o.kv = o.n /\ o.kf = o.n)
      /\ o.n > MAX_SWAPCHAIN_IMAGE_COUNT => (o.kv = o.n /\ o.kf = o.n)
      /\ o.kv < o.n => o.kf = o.n }

SuccessfulBuildOutcomes ==
  { o \in BuildOutcomes :
      o.ok /\ o.n <= MAX_SWAPCHAIN_IMAGE_COUNT /\ o.kv = o.n /\ o.kf = o.n }

\* The failures injected into moss_engine_init besides those of the
\* swapchain build: << function (or crate), index of its failing call >>.
NoFailure == <<"none", 0>>

InitFailures ==
  { <<f, 0>> : f \in { "moss__init_stuffy_app", "moss__open_window",
                       "moss__create_api_instance", "moss__create_surface",
                       "moss__select_physical_device", "moss__create_logical_device",
                       "moss__create_render_pass",
                       "moss__create_general_command_buffers" } }
    \cup ({ "moss__create_command_pool", "vertex_crate", "staging_crate",
            "moss__copy_vk_buffer" } \X (0 .. 1))
    \cup ({ "moss__create_image_available_semaphores",
            "moss__create_render_finished_semaphores",
            "moss__create_in_flight_fences" } \X Slots)
    \cup ({"moss__create_graphics_pipeline"} \X (0 .. 3))

\* One failure at most is injected: a failing swapchain build, or one of
\* InitFailures with a swapchain build that succeeds.
InitInputs ==
  { in \in [ w : 1 .. MaxWidth, h : Heights \ {0},
             capabilities : UNION { SurfaceCapabilities(ws) : ws \in Extents },
             ok : BOOLEAN, n : ReportedImageCounts, kv : 0 .. MaxReportedImages,
             kf : 0 .. MaxReportedImages, fail : InitFailures \cup {NoFailure},
             garbage : BOOLEAN ] :
      /\ in.capabilities \in SurfaceCapabilities(<<in.w, in.h>>)
      /\ [ok |-> in.ok, n |-> in.n, kv |-> in.kv, kf |-> in.kf] \in
           (IF in.fail = NoFailure THEN BuildOutcomes ELSE SuccessfulBuildOutcomes)
      /\ in.garbage =>
           \/ in.fail[1] = "staging_crate"
           \/ in.ok /\ in.n > MAX_SWAPCHAIN_IMAGE_COUNT }

\* The engine as the static initializer of g_engine and moss_engine_deinit
\* leave it.
NullEngineState ==
  [ s             |-> [ swapchain |-> "null", image_count |-> 0,
                        format |-> VK_FORMAT_UNDEFINED, extent |-> <<0, 0>>,
                        views |-> NullHandles, fbs |-> NullHandles, calls |-> <<>> ],
    window        |-> "null",
    device        |-> "null",
    fences        |-> NullSlots,
    current_frame |-> 0,
    r             |-> NullResources ]

\* Every input of moss_engine_init with what init makes of that engine.
InitFromNull ==
  { [in |-> in, out |-> RunInit(NullEngineState, 1, in)] : in \in InitInputs }

moss_engine_init(in, from_null) ==
  /\ pc = "idle"
  /\ window = "null"
  /\ device = "null"
  /\ LET r == IF EngineState = NullEngineState THEN from_null
              ELSE RunInit(EngineState, 1, in)
     IN  /\ SetEngineState(r.state)
         /\ window_size' = IF r.result = "Success" THEN <<in.w, in.h>> ELSE <<0, 0>>
         /\ trace' = [op |-> "init", after |-> trace.op, result |-> r.result,
                      calls |-> r.state.s.calls]
  /\ call' = NoCall
  /\ UNCHANGED << unit, framebuffer_resize_requsted, pending, pc, recreate_args,
                  recreate_caller, current_image_index >>

moss_engine_deinit_begin ==
  /\ pc = "idle"
  /\ pc' = "deinit_wait"
  /\ UNCHANGED << unit, window, window_size, device, swapchain_vars,
                  framebuffer_resize_requsted, in_flight_fences, current_frame,
                  pending, recreate_args, recreate_caller, current_image_index,
                  call, resources, trace >>

moss_engine_deinit_finish(garbage) ==
  /\ pc = "deinit_wait"
  /\ device # "null" => GpuIdle
  /\ LET e == moss_engine_deinit(EngineState, garbage)
     IN  /\ DeinitEffect(e)
         /\ trace' = [op |-> "deinit", after |-> trace.op, result |-> "none",
                      calls |-> e.s.calls]
  /\ pc' = "idle"
  /\ call' = NoCall
  /\ UNCHANGED << unit, framebuffer_resize_requsted, pending, recreate_args,
                  recreate_caller, current_image_index >>


(***************************************************************************)
(* moss_engine_should_close: true without any call when there is no        *)
(* window; otherwise the windowing application is updated and the window   *)
(* is asked, and its answer (should_close) is returned.                    *)
(***************************************************************************)
BoolName(b) == IF b THEN "true" ELSE "false"

\* The calls made to the window system; the last one holds the window's reply.
ShouldCloseCalls(e, should_close) ==
  IF e.window = "null" THEN e
  ELSE [Mark(e, "stuffy_app_update") EXCEPT !.s.calls =
          Append(@, <<"call", "stuffy_window_should_close", BoolName(should_close)>>)]

\* A should_close that never looks at the window's reply.
ShouldCloseResult_AlwaysTrue(e, should_close) == "true"

ShouldCloseResult(e, should_close) ==
  IF e.window = "null" THEN "true" ELSE BoolName(should_close)

moss_engine_should_close(should_close) ==
  /\ pc = "idle"
  /\ trace' = [op |-> "should_close", after |-> "none",
               result |-> ShouldCloseResult(EngineState, should_close),
               calls |-> ShouldCloseCalls(EngineState, should_close).s.calls]
  /\ UNCHANGED << unit, window, window_size, device, swapchain_vars,
                  framebuffer_resize_requsted, in_flight_fences, current_frame,
                  pending, pc, recreate_args, recreate_caller, current_image_index,
                  call, resources >>

(***************************************************************************)
(* moss_engine_draw_frame.                                                 *)
(***************************************************************************)
\* A frame loop that does not wait for the slot's fence.
FenceWaitSatisfied_NoWait(fence) == TRUE

\* vkWaitForFences (..., UINT64_MAX) returns once the fence is signaled.
FenceWaitSatisfied(fence) == fence = "signaled"

\* A frame loop that treats an out-of-date acquisition as any other error.
AcquireOutOfDate_Never(result) == FALSE

\* Line 719: the acquire result that abandons the frame and recreates.
AcquireOutOfDate(result) == result = "VK_ERROR_OUT_OF_DATE_KHR"

\* Line 727: the acquire results with which the frame goes on.
AcquireUsable(result) == result \in {"VK_SUCCESS", "VK_SUBOPTIMAL_KHR"}

\* The same condition without the resize flag.
PresentNeedsRecreate_ResultOnly(result, resize_requested) ==
  \/ result = "VK_ERROR_OUT_OF_DATE_KHR"
  \/ result = "VK_SUBOPTIMAL_KHR"

\* Lines 774-775: the condition for recreating after presentation.
PresentNeedsRecreate(result, resize_requested) ==
  \/ result = "VK_ERROR_OUT_OF_DATE_KHR"
  \/ result = "VK_SUBOPTIMAL_KHR"
  \/ resize_requested

\* A frame index that is advanced without wrapping.
NextFrame_NoWrap(frame) == frame + 1

\* Line 794.
NextFrame(frame) == (frame + 1) % MAX_FRAMES_IN_FLIGHT

\* A present branch that drops the result of the recreation.
ResultAfterRecreate_Swallow(caller, result) ==
  IF caller = "acquire" THEN result ELSE "Success"

\* What draw_frame returns after moss__recreate_swapchain returned result:
\* the acquire branch returns it as is (line 724), the present branch
\* returns Error on failure and otherwise falls through to line 796.
ResultAfterRecreate(caller, result) ==
  IF caller = "acquire" THEN result
  ELSE IF result # "Success" THEN "Error"
  ELSE "Success"

\* Image indices vkAcquireNextImageKHR may write; with a null swapchain the
\* call is invalid and current_image_index holds whatever the driver or the
\* stack left there.
AcquirableIndices ==
  IF swapchain = "live" /\ swapchain_image_count > 0
    THEN 0 .. (swapchain_image_count - 1)
    ELSE ImageIdx

DrawFrame_Begin ==
  /\ pc = "idle"
  /\ device = "live"
  /\ pc' = "wait"
  /\ call' = [NoCall EXCEPT !.frame = current_frame]
  /\ trace' = [NoTrace EXCEPT !.op = "draw_frame"]
  /\ UNCHANGED << unit, window, window_size, device, swapchain_vars,
                  framebuffer_resize_requsted, in_flight_fences, current_frame,
                  pending, recreate_args, recreate_caller, current_image_index,
                  resources >>

\* Lines 706-731: wait for and reset the slot's fence, acquire an image.
DrawFrame_WaitAndAcquire(result, index) ==
  /\ pc = "wait"
  /\ FenceWaitSatisfied(in_flight_fences[current_frame])
  /\ in_flight_fences' = [in_flight_fences EXCEPT ![current_frame] = "unsignaled"]
  /\ IF AcquireOutOfDate(result)
       THEN /\ pc' = "recreate_wait"
            /\ recreate_args' = window_size
            /\ recreate_caller' = "acquire"
            /\ current_image_index' = 0
            /\ call' = [call EXCEPT !.acquire = result, !.recreated = TRUE]
       ELSE IF ~AcquireUsable(result)
       THEN /\ pc' = "returned"
            /\ current_image_index' = 0
            /\ call' = [call EXCEPT !.acquire = result, !.result = "Error"]
            /\ UNCHANGED << recreate_args, recreate_caller >>
       ELSE /\ pc' = "record"
            /\ current_image_index' = index
            /\ call' = [call EXCEPT !.acquire = result]
            /\ UNCHANGED << recreate_args, recreate_caller >>
  /\ UNCHANGED << unit, window, window_size, device, swapchain_vars,
                  framebuffer_resize_requsted, current_frame, pending,
                  lifecycle_vars >>

\* Lines 733-761: reset and record the slot's command buffer (the result of
\* moss__record_command_buffer is void: a failed begin or end is only
\* logged), then submit it with the slot's fence.
DrawFrame_RecordAndSubmit(begin_ok, end_ok, submit_ok) ==
  /\ pc = "record"
  /\ IF submit_ok
       THEN /\ pending' = [pending EXCEPT ![current_frame] = @ + 1]
            /\ pc' = "present"
            /\ call' = [call EXCEPT !.recorded = TRUE,
                                    !.record_failed = (~begin_ok \/ ~end_ok),
                                    !.submit = "ok"]
       ELSE /\ pc' = "returned"
            /\ call' = [call EXCEPT !.recorded = TRUE,
                                    !.record_failed = (~begin_ok \/ ~end_ok),
                                    !.submit = "fail",
                                    !.result = "Error"]
            /\ UNCHANGED pending
  /\ current_image_index' = 0
  /\ UNCHANGED << unit, window, window_size, device, swapchain_vars,
                  framebuffer_resize_requsted, in_flight_fences, current_frame,
                  recreate_args, recreate_caller, lifecycle_vars >>

\* Lines 763-796: present, then recreate or fail or advance the frame index.
DrawFrame_Present(result) ==
  /\ pc = "present"
  /\ IF PresentNeedsRecreate(result, framebuffer_resize_requsted)
       THEN /\ framebuffer_resize_requsted' = FALSE
            /\ recreate_args' = window_size
            /\ recreate_caller' = "present"
            /\ pc' = "recreate_wait"
            /\ call' = [call EXCEPT !.present = result,
                                    !.resize_at_present = framebuffer_resize_requsted,
                                    !.recreated = TRUE]
            /\ UNCHANGED current_frame
       ELSE IF result # "VK_SUCCESS"
       THEN /\ pc' = "returned"
            /\ call' = [call EXCEPT !.present = result,
                                    !.resize_at_present = framebuffer_resize_requsted,
                                    !.result = "Error"]
            /\ UNCHANGED << framebuffer_resize_requsted, recreate_args,
                            recreate_caller, current_frame >>
       ELSE /\ pc' = "returned"
            /\ current_frame' = NextFrame(current_frame)
            /\ call' = [call EXCEPT !.present = result,
                                    !.resize_at_present = framebuffer_resize_requsted,
                                    !.result = "Success"]
            /\ UNCHANGED << framebuffer_resize_requsted, recreate_args, recreate_caller >>
  /\ UNCHANGED << unit, window, window_size, device, swapchain_vars, in_flight_fences,
                  pending, current_image_index, lifecycle_vars >>

\* The caller receives the return value (example/main.c ignores it) and the
\* thread is between frames again.  Returning takes no time, so the
\* collaborators' steps are placed before or after it.
DrawFrame_Return ==
  /\ pc = "returned"
  /\ pc' = "idle"
  /\ call' = NoCall
  /\ trace' = [NoTrace EXCEPT !.op = "draw_frame"]
  /\ UNCHANGED << unit, window, window_size, device, swapchain_vars,
                  framebuffer_resize_requsted, in_flight_fences, current_frame,
                  pending, recreate_args, recreate_caller, current_image_index,
                  resources >>

(***************************************************************************)
(* moss__recreate_swapchain (width, height).                               *)
(***************************************************************************)
\* moss__wait_while_window_is_minimized: one iteration of the loop while the
\* window reports a zero width or height (stuffy_window_get_rect,
\* stuffy_app_update); nothing of the engine changes.
WaitWhileMinimized_Poll ==
  /\ pc = "recreate_wait"
  /\ IsMinimized(window_size)
  /\ UNCHANGED vars

\* moss__wait_while_window_is_minimized returns: the rect it read is not
\* zero; moss__recreate_swapchain goes on to vkDeviceWaitIdle.
WaitWhileMinimized_Done ==
  /\ pc = "recreate_wait"
  /\ ~IsMinimized(window_size)
  /\ pc' = "recreate_idle"
  /\ UNCHANGED << unit, window, window_size, device, swapchain_vars,
                  framebuffer_resize_requsted, in_flight_fences, current_frame,
                  pending, recreate_args, recreate_caller, current_image_index,
                  call, lifecycle_vars >>

\* Lines 1614-1625 once vkDeviceWaitIdle has returned, and the return of
\* draw_frame that follows.
RecreateSwapchain_Finish(capabilities, ok, n, kv, kf, garbage) ==
  /\ pc = "recreate_idle"
  /\ GpuIdle
  /\ \E r \in {RecreateBuild(SwapchainState, recreate_args[1], recreate_args[2],
                              capabilities, ok, n, kv, kf, garbage)} :
     LET ret == ResultAfterRecreate(recreate_caller, r.result)
     IN  /\ SetSwapchainState(r.state)
         /\ trace' = [trace EXCEPT !.calls = r.state.calls]
         /\ call' = [call EXCEPT !.recreate_result = r.result, !.result = ret]
         /\ current_frame' = IF recreate_caller = "present" /\ ret = "Success"
                               THEN NextFrame(current_frame)
                               ELSE current_frame
  /\ pc' = "returned"
  /\ recreate_args' = <<0, 0>>
  /\ recreate_caller' = "none"
  /\ UNCHANGED << unit, window, window_size, device, framebuffer_resize_requsted,
                  in_flight_fences, pending, current_image_index, resources >>

(***************************************************************************)
(* Collaborators.                                                          *)
(***************************************************************************)
\* The graphics queue finishes a submission of slot s and signals its fence.
GpuComplete(s) ==
  /\ pc # "returned"
  /\ pending[s] > 0
  /\ pending' = [pending EXCEPT ![s] = @ - 1]
  /\ in_flight_fences' = [in_flight_fences EXCEPT ![s] = "signaled"]
  /\ UNCHANGED << unit, window, window_size, device, swapchain_vars,
                  framebuffer_resize_requsted, current_frame, pc, recreate_args,
                  recreate_caller, current_image_index, call, lifecycle_vars >>

\* The windowing system changes the window's size (0: minimized).
WindowSizeChange(w, h) ==
  /\ pc # "returned"
  /\ window = "live"
  /\ <<w, h>> # window_size
  /\ window_size' = <<w, h>>
  /\ UNCHANGED << unit, window, device, swapchain_vars, framebuffer_resize_requsted,
                  in_flight_fences, current_frame, pending, pc, recreate_args,
                  recreate_caller, current_image_index, call, lifecycle_vars >>

moss__window_resize_callback ==
  /\ pc # "returned"
  /\ window = "live"
  /\ framebuffer_resize_requsted' = TRUE
  /\ UNCHANGED << unit, window, window_size, device, swapchain_vars, in_flight_fences,
                  current_frame, pending, pc, recreate_args, recreate_caller,
                  current_image_index, call, lifecycle_vars >>

EngineInit ==
  /\ pc = "idle"
  /\ window = "null"
  /\ \E i \in InitFromNull : moss_engine_init(i.in, i.out)

ShouldClose == \E should_close \in BOOLEAN : moss_engine_should_close(should_close)

DeinitFinish ==
  \E garbage \in OverrunReads(swapchain_image_count) : moss_engine_deinit_finish(garbage)

WaitAndAcquire ==
  \E result \in VkFrameResults, index \in AcquirableIndices :
    DrawFrame_WaitAndAcquire(result, index)

RecordAndSubmit ==
  \E begin_ok \in BOOLEAN, end_ok \in BOOLEAN, submit_ok \in BOOLEAN :
    DrawFrame_RecordAndSubmit(begin_ok, end_ok, submit_ok)

Present == \E result \in VkFrameResults : DrawFrame_Present(result)

RecreateFinish ==
  /\ pc = "recreate_idle"
  /\ \E capabilities \in SurfaceCapabilities(window_size), o \in BuildOutcomes,
       garbage \in OverrunReads(swapchain_image_count) :
       RecreateSwapchain_Finish(capabilities, o.ok, o.n, o.kv, o.kf, garbage)

GpuStep == \E s \in Slots : GpuComplete(s)

WindowStep == \E w \in Widths, h \in Heights : WindowSizeChange(w, h)

Next ==
  \/ EngineInit
  \/ moss_engine_deinit_begin
  \/ DeinitFinish
  \/ ShouldClose
  \/ DrawFrame_Begin
  \/ WaitAndAcquire
  \/ RecordAndSubmit
  \/ Present
  \/ DrawFrame_Return
  \/ WaitWhileMinimized_Poll
  \/ WaitWhileMinimized_Done
  \/ RecreateFinish
  \/ GpuStep
  \/ WindowStep
  \/ moss__window_resize_callback

Spec == Init /\ [][Next]_vars


(***************************************************************************)
(* The frame loop under the scheduling the code relies on: the driving     *)
(* thread keeps executing a call it has entered, the graphics queue        *)
(* finishes what was submitted, a minimized window is restored and the     *)
(* poll loop gets to see it; acquisition and presentation report only      *)
(* success, suboptimal or out-of-date, and every other driver call of the  *)
(* frame loop succeeds.                                                    *)
(***************************************************************************)
InvalidationResults == VkFrameResults \ {"VK_ERROR_DEVICE_LOST"}

WaitAndAcquire_NoHardFailure ==
  \E result \in InvalidationResults, index \in AcquirableIndices :
    DrawFrame_WaitAndAcquire(result, index)

Present_NoHardFailure == \E result \in InvalidationResults : DrawFrame_Present(result)

RecordAndSubmit_Ok == DrawFrame_RecordAndSubmit(TRUE, TRUE, TRUE)

RecreateFinish_Ok ==
  /\ pc = "recreate_idle"
  /\ GpuIdle
  /\ \E capabilities \in SurfaceCapabilities(window_size), o \in SuccessfulBuildOutcomes,
     garbage \in OverrunReads(swapchain_image_count) :
    RecreateSwapchain_Finish(capabilities, o.ok, o.n, o.kv, o.kf, garbage)

WindowRestored == \E w \in 1 .. MaxWidth, h \in Heights \ {0} : WindowSizeChange(w, h)

FairNext ==
  \/ EngineInit
  \/ DrawFrame_Begin
  \/ WaitAndAcquire_NoHardFailure
  \/ RecordAndSubmit_Ok
  \/ Present_NoHardFailure
  \/ DrawFrame_Return
  \/ WaitWhileMinimized_Poll
  \/ WaitWhileMinimized_Done
  \/ RecreateFinish_Ok
  \/ GpuStep
  \/ WindowStep
  \/ moss__window_resize_callback

FairSpec ==
  /\ Init
  /\ [][FairNext]_vars
  /\ WF_vars(WaitAndAcquire_NoHardFailure)
  /\ WF_vars(RecordAndSubmit_Ok)
  /\ WF_vars(Present_NoHardFailure)
  /\ SF_vars(WaitWhileMinimized_Done)
  /\ WF_vars(RecreateFinish_Ok)
  /\ WF_vars(GpuStep)
  /\ WF_vars(WindowRestored)

(***************************************************************************)
(* The frame loop when draw_frame keeps being called and every driver call *)
(* succeeds: acquisition and presentation report VK_SUCCESS or             *)
(* VK_SUBOPTIMAL_KHR, the application calls draw_frame again after each    *)
(* return, and the scheduling is the one of FairSpec.                      *)
(***************************************************************************)
SuccessResults == {"VK_SUCCESS", "VK_SUBOPTIMAL_KHR"}

WaitAndAcquire_Success ==
  /\ pc = "wait"
  /\ \E result \in SuccessResults, index \in AcquirableIndices :
    DrawFrame_WaitAndAcquire(result, index)

Present_Success == pc = "present" /\ \E result \in SuccessResults : DrawFrame_Present(result)

ResizeNext ==
  \/ EngineInit
  \/ DrawFrame_Begin
  \/ WaitAndAcquire_Success
  \/ RecordAndSubmit_Ok
  \/ Present_Success
  \/ DrawFrame_Return
  \/ WaitWhileMinimized_Poll
  \/ WaitWhileMinimized_Done
  \/ RecreateFinish_Ok
  \/ GpuStep
  \/ WindowStep
  \/ moss__window_resize_callback

ResizeSpec ==
  /\ Init
  /\ [][ResizeNext]_vars
  /\ WF_vars(DrawFrame_Begin)
  /\ WF_vars(WaitAndAcquire_Success)
  /\ WF_vars(RecordAndSubmit_Ok)
  /\ WF_vars(Present_Success)
  /\ WF_vars(DrawFrame_Return)
  /\ SF_vars(WaitWhileMinimized_Done)
  /\ WF_vars(RecreateFinish_Ok)
  /\ WF_vars(GpuStep)
  /\ WF_vars(WindowRestored)

(***************************************************************************)
(* The crate manager (src/internal/crate.h), the memory-type selector and  *)
(* moss__init_buffer_sharing_mode called on their own, on a device that    *)
(* exists, with g_engine.vertex_crate as the crate: the sharing mode is    *)
(* initialised, a crate is created, filled and destroyed.  trace holds the *)
(* last call, unit its inputs and the outputs that are not in the crate.   *)
(***************************************************************************)
QueueFamilyIndices == 0 .. MaxQueueFamily

\* VkMemoryPropertyFlags over the three bits the code names.
PropertyMasks == 0 .. 7

\* The propertyFlags of the memory types of a physical device.
MemoryTypeLists == UNION { [1 .. n -> PropertyMasks] : n \in 0 .. MaxMemoryTypes }

\* memoryTypeBits over one more bit than there are memory types.
TypeFilters == 0 .. (2 ^ (MaxMemoryTypes + 1) - 1)

\* Two byte values tell a byte that was copied from one that was not.
Bytes == {0, 1}

\* The sources of a fill of n bytes.
SourceMemories(n) == [1 .. n -> Bytes]

\* The creation requests: the vertex crate's, and the same with another
\* size, sharing mode or number of queue family indices.
CrateRequests(r, dev) ==
  { [VertexCrateInfo(r, dev) EXCEPT !.size = size, !.sharing_mode = mode,
                                    !.shared_queue_family_index_count = count]
      : size \in 1 .. MaxBytes,
        mode \in {VK_SHARING_MODE_EXCLUSIVE, VK_SHARING_MODE_CONCURRENT},
        count \in {0, 2} }
    \cup {VertexCrateInfo(r, dev)}

\* The physical devices: one memory type with every property, a device-local
\* type and a host type, a device-local type only.
DeviceMemoryTypes ==
  { << VK_MEMORY_PROPERTY_DEVICE_LOCAL_BIT + VK_MEMORY_PROPERTY_HOST_VISIBLE_BIT
         + VK_MEMORY_PROPERTY_HOST_COHERENT_BIT >>,
    << VK_MEMORY_PROPERTY_DEVICE_LOCAL_BIT,
       VK_MEMORY_PROPERTY_HOST_VISIBLE_BIT + VK_MEMORY_PROPERTY_HOST_COHERENT_BIT >>,
    << VK_MEMORY_PROPERTY_DEVICE_LOCAL_BIT >> }

\* The driver calls of moss__create_crate and of moss__copy_vk_buffer whose
\* result is a VkResult, the latter in the order of the calls.
CrateDriverCalls == {"vkCreateBuffer", "vkAllocateMemory", "vkBindBufferMemory"}

CopyDriverCalls ==
  << "vkAllocateCommandBuffers", "vkBeginCommandBuffer", "vkQueueSubmit",
     "vkQueueWaitIdle", "vkQueueWaitIdle (copy still executing)" >>

\* The buffer needs the bytes asked for, or one more (alignment).
Paddings == {0, 1}

\* What the driver answers to the creation of a buffer of size bytes when
\* the call named failing fails: every memory type of the device is
\* allowed.
CrateDriverAnswers(size, padding, memory_types, failing) ==
  [ buffer_ok    |-> failing # "vkCreateBuffer",
    requirements |-> [size |-> size + padding,
                      memoryTypeBits |-> 2 ^ Len(memory_types) - 1],
    memory_types |-> memory_types,
    allocate_ok  |-> failing # "vkAllocateMemory",
    bind_ok      |-> failing # "vkBindBufferMemory" ]

\* What the driver may answer to the creation of a buffer of size bytes: at
\* most one of its calls fails.
CrateDrivers(size, memory_types) ==
  { CrateDriverAnswers(size, padding, memory_types, failing)
      : failing \in CrateDriverCalls \cup {"none"}, padding \in Paddings }

\* What the driver may answer during moss__fill_crate on dst_crate: at most
\* one call fails, in the creation of the staging crate or in the copy.
\* Mapping the memory of a staging crate that was not created and writing
\* through the pointer it did not set is undefined: the process ends there
\* or goes on.
FillDrivers(dst_crate, memory_types) ==
  UNION {
    { [ staging |-> CrateDriverAnswers(dst_crate.size, padding, memory_types, failing),
        fail    |-> IF \E i \in DOMAIN CopyDriverCalls : CopyDriverCalls[i] = failing
                      THEN << "moss__copy_vk_buffer",
                              (CHOOSE i \in DOMAIN CopyDriverCalls :
                                 CopyDriverCalls[i] = failing) - 1 >>
                      ELSE NoFailure,
        garbage |-> garbage,
        stale   |-> stale,
        abort   |-> abort ]
        : padding \in Paddings,
          garbage \in IF failing = "vkCreateBuffer" THEN BOOLEAN ELSE {FALSE},
          stale \in Bytes,
          abort \in IF failing \in {"vkCreateBuffer", "vkAllocateMemory", "none"}
                      THEN BOOLEAN ELSE {FALSE} }
    : failing \in CrateDriverCalls \cup {"none"}
                   \cup {CopyDriverCalls[i] : i \in DOMAIN CopyDriverCalls} }

NoCalls == [calls |-> <<>>]

SelectMemoryType(memory_types, type_filter, properties) ==
  /\ trace.op = "none"
  /\ LET r == moss__select_suitable_memory_type(memory_types, type_filter, properties)
     IN  /\ trace' = [op |-> "moss__select_suitable_memory_type", after |-> trace.op,
                      result |-> r.result, calls |-> <<>>]
         /\ unit' = [unit EXCEPT
                       !.in  = [memory_types |-> memory_types,
                                type_filter |-> type_filter,
                                properties |-> properties],
                       !.out = [memory_type |-> r.memory_type]]
  /\ UNCHANGED << frame_vars, resources >>

InitBufferSharingMode(graphics_family, transfer_family) ==
  /\ trace.op \in {"none", "moss__init_buffer_sharing_mode"}
  /\ resources' = moss__init_buffer_sharing_mode(resources, graphics_family,
                                                 transfer_family)
  /\ trace' = [op |-> "moss__init_buffer_sharing_mode", after |-> trace.op,
               result |-> "none", calls |-> <<>>]
  /\ unit' = [unit EXCEPT !.in = [graphics_family |-> graphics_family,
                                  transfer_family |-> transfer_family],
                          !.out = <<>>]
  /\ UNCHANGED frame_vars

CreateCrate(info, driver) ==
  /\ trace.op \in {"none", "moss__init_buffer_sharing_mode"}
  /\ LET c == moss__create_crate(NoCalls, info, resources.vertex_crate, driver)
     IN  /\ resources' = [resources EXCEPT !.vertex_crate = c.crate]
         /\ trace' = [op |-> "moss__create_crate", after |-> trace.op,
                      result |-> c.result, calls |-> c.s.calls]
         /\ unit' = [in |-> [info |-> info], out |-> <<>>,
                     memory_types |-> driver.memory_types]
  /\ UNCHANGED frame_vars

FillCrate(source_memory, driver) ==
  /\ trace.op = "moss__create_crate"
  /\ trace.result = "Success"
  /\ trace.calls[Len(trace.calls)] = <<"call", "vkBindBufferMemory", "ok">>
  /\ LET info == [ destination_crate |-> resources.vertex_crate,
                   source_memory     |-> source_memory,
                   size              |-> Len(source_memory) ]
         f == moss__fill_crate(NoCalls, info, driver)
     IN  /\ trace' = [op |-> "moss__fill_crate", after |-> trace.op,
                      result |-> f.result, calls |-> f.s.calls]
         /\ unit' = [unit EXCEPT
                       !.in  = [source_memory |-> source_memory,
                                size |-> Len(source_memory),
                                buffer_size |-> unit.in.info.size],
                       !.out = [staging_created |-> f.staging_created,
                                staging |-> f.staging,
                                destination_memory |-> f.destination_memory]]
  /\ UNCHANGED << frame_vars, resources >>

DestroyCrate ==
  /\ trace.op # "moss__select_suitable_memory_type"
  /\ trace.result # "Aborted"
  /\ LET d == moss__destroy_crate(NoCalls, resources.vertex_crate)
     IN  /\ resources' = [resources EXCEPT !.vertex_crate = d.crate]
         /\ trace' = [op |-> "moss__destroy_crate", after |-> trace.op,
                      result |-> "none", calls |-> d.s.calls]
         /\ unit' = [unit EXCEPT !.in = [crate |-> resources.vertex_crate],
                                 !.out = <<>>]
  /\ UNCHANGED frame_vars

\* A logical device exists and nothing else of the engine does.
CrateInit ==
  /\ window = "null"
  /\ window_size = <<0, 0>>
  /\ device = "live"
  /\ swapchain = "null"
  /\ swapchain_image_count = 0
  /\ swapchain_image_format = VK_FORMAT_UNDEFINED
  /\ swapchain_extent = <<0, 0>>
  /\ swapchain_image_views = NullHandles
  /\ swapchain_framebuffers = NullHandles
  /\ framebuffer_resize_requsted = FALSE
  /\ in_flight_fences = NullSlots
  /\ current_frame = 0
  /\ pending = [s \in Slots |-> 0]
  /\ pc = "idle"
  /\ recreate_args = <<0, 0>>
  /\ recreate_caller = "none"
  /\ current_image_index = 0
  /\ call = NoCall
  /\ resources = NullResources
  /\ trace = NoTrace
  /\ unit = NoUnit

SelectStep ==
  /\ trace.op = "none"
  /\ \E memory_types \in MemoryTypeLists, type_filter \in TypeFilters,
        properties \in PropertyMasks :
       SelectMemoryType(memory_types, type_filter, properties)

SharingStep ==
  /\ trace.op \in {"none", "moss__init_buffer_sharing_mode"}
  /\ \E graphics_family \in QueueFamilyIndices, transfer_family \in QueueFamilyIndices :
       InitBufferSharingMode(graphics_family, transfer_family)

CreateStep ==
  /\ trace.op \in {"none", "moss__init_buffer_sharing_mode"}
  /\ \E info \in CrateRequests(resources, device) :
       \E memory_types \in DeviceMemoryTypes :
         \E driver \in CrateDrivers(info.size, memory_types) :
           CreateCrate(info, driver)

FillStep ==
  /\ trace.op = "moss__create_crate"
  /\ trace.result = "Success"
  /\ \E source_memory \in SourceMemories(unit.in.info.size),
        driver \in FillDrivers(resources.vertex_crate, unit.memory_types) :
       FillCrate(source_memory, driver)

CrateNext ==
  \/ SelectStep
  \/ SharingStep
  \/ CreateStep
  \/ FillStep
  \/ DestroyCrate

CrateSpec == CrateInit /\ [][CrateNext]_vars

(***************************************************************************)
(* The helpers of device selection and of the swapchain's extent called on *)
(* their own: moss__choose_swap_extent on the capabilities a surface       *)
(* reports, moss__find_queue_families and moss__check_device_queues_support*)
(* on the queue families a physical device reports, and the queue entries  *)
(* moss__create_logical_device builds for a device that was selected.      *)
(***************************************************************************)
ExtentCoordinates == 0 .. MaxExtent

\* The capabilities of a surface: the minimum extent is within the maximum
\* one, and the current extent is the 'any extent' value or an extent within
\* the two.
ExtentCapabilities ==
  UNION { UNION { { [currentExtent |-> c, minImageExtent |-> lo, maxImageExtent |-> hi]
                      : c \in {ANY_EXTENT} \cup
                              { e \in ExtentCoordinates \X ExtentCoordinates :
                                  /\ lo[1] <= e[1] /\ e[1] <= hi[1]
                                  /\ lo[2] <= e[2] /\ e[2] <= hi[2] } }
                  : hi \in { h \in ExtentCoordinates \X ExtentCoordinates :
                               lo[1] <= h[1] /\ lo[2] <= h[2] } }
          : lo \in ExtentCoordinates \X ExtentCoordinates }

\* The sizes a caller asks for: up to one beyond the largest extent.
DesiredSizes == 0 .. MaxExtent + 1

ChooseSwapExtent(capabilities, width, height) ==
  /\ trace.op = "none"
  /\ trace' = [op |-> "moss__choose_swap_extent", after |-> trace.op,
               result |-> "none", calls |-> <<>>]
  /\ unit' = [unit EXCEPT
                !.in  = [capabilities |-> capabilities, width |-> width,
                         height |-> height],
                !.out = [extent |-> moss__choose_swap_extent(capabilities, width,
                                                             height)]]
  /\ UNCHANGED << frame_vars, resources >>

\* The properties of a queue family: the graphics and transfer bits of its
\* queueFlags and whether it can present to the surface.
QueueFamilyProperties == [graphics : BOOLEAN, transfer : BOOLEAN, present : BOOLEAN]

QueueFamilyLists ==
  UNION { [1 .. n -> QueueFamilyProperties] : n \in 0 .. MaxQueueFamilyCount }

\* What the index fields hold before anything is stored in them (lines 88-92
\* initialise the three flags only).
UninitializedIndices == [graphics_family : {0, 1}, present_family : {0, 1}]

\* The loop of lines 100-131 from family i on (families are numbered from 0).
RECURSIVE ScanQueueFamilies(_, _, _)
ScanQueueFamilies(queue_families, i, indices) ==
  IF i >= Len(queue_families) THEN indices
  ELSE LET f == queue_families[i + 1]
           a == IF f.transfer /\ ~f.graphics
                  THEN [indices EXCEPT !.transfer_family = i,
                                       !.transfer_family_found = TRUE]
                  ELSE indices
           b == IF f.graphics
                  THEN [a EXCEPT !.graphics_family = i,
                                 !.graphics_family_found = TRUE]
                  ELSE a
           c == IF f.present
                  THEN [b EXCEPT !.present_family = i,
                                 !.present_family_found = TRUE]
                  ELSE b
       IN  IF c.transfer_family_found /\ c.graphics_family_found
              /\ c.present_family_found
             THEN c
             ELSE ScanQueueFamilies(queue_families, i + 1, c)

moss__find_queue_families(queue_families, uninitialized) ==
  LET indices == ScanQueueFamilies(queue_families, 0,
                   [graphics_family       |-> uninitialized.graphics_family,
                    present_family        |-> uninitialized.present_family,
                    transfer_family       |-> 0,
                    graphics_family_found |-> FALSE,
                    present_family_found  |-> FALSE,
                    transfer_family_found |-> FALSE])
  IN  IF ~indices.transfer_family_found
        THEN [indices EXCEPT !.transfer_family = indices.graphics_family,
                             !.transfer_family_found = TRUE]
        ELSE indices

\* A check that asks for the present family only.
moss__check_device_queues_support_PresentOnly(indices) == indices.present_family_found

moss__check_device_queues_support(indices) ==
  IF ~indices.present_family_found THEN FALSE
  ELSE IF ~indices.graphics_family_found THEN FALSE
  ELSE TRUE

\* The queueFamilyIndex of the entries of queue_create_infos, in the order
\* moss__create_logical_device adds them (lines 943-982).
QueueCreateInfos(indices) ==
  LET graphics == << indices.graphics_family >>
      present  == IF indices.graphics_family # indices.present_family
                    THEN Append(graphics, indices.present_family) ELSE graphics
  IN  IF indices.graphics_family # indices.transfer_family
        THEN Append(present, indices.transfer_family) ELSE present

FindQueueFamilies(queue_families, uninitialized) ==
  /\ trace.op = "none"
  /\ LET indices == moss__find_queue_families(queue_families, uninitialized)
     IN  /\ trace' = [op |-> "moss__find_queue_families", after |-> trace.op,
                      result |-> "none", calls |-> <<>>]
         /\ unit' = [unit EXCEPT
                       !.in  = [queue_families |-> queue_families],
                       !.out = [indices |-> indices,
                                suitable |-> moss__check_device_queues_support(indices)]]
  /\ UNCHANGED << frame_vars, resources >>

\* moss__create_logical_device on the indices of a device that
\* moss__select_physical_device accepted.
CreateLogicalDevice ==
  /\ trace.op = "moss__find_queue_families"
  /\ unit.out.suitable
  /\ trace' = [op |-> "moss__create_logical_device", after |-> trace.op,
               result |-> "Success",
               calls |-> << <<"create", "device", "live">> >>]
  /\ unit' = [unit EXCEPT
                !.out = [indices |-> unit.out.indices,
                         suitable |-> unit.out.suitable,
                         queue_create_infos |-> QueueCreateInfos(unit.out.indices)]]
  /\ UNCHANGED << frame_vars, resources >>

\* Nothing of the engine exists yet but the physical devices can be asked.
DeviceInit ==
  /\ window = "null"
  /\ window_size = <<0, 0>>
  /\ device = "null"
  /\ swapchain = "null"
  /\ swapchain_image_count = 0
  /\ swapchain_image_format = VK_FORMAT_UNDEFINED
  /\ swapchain_extent = <<0, 0>>
  /\ swapchain_image_views = NullHandles
  /\ swapchain_framebuffers = NullHandles
  /\ framebuffer_resize_requsted = FALSE
  /\ in_flight_fences = NullSlots
  /\ current_frame = 0
  /\ pending = [s \in Slots |-> 0]
  /\ pc = "idle"
  /\ recreate_args = <<0, 0>>
  /\ recreate_caller = "none"
  /\ current_image_index = 0
  /\ call = NoCall
  /\ resources = NullResources
  /\ trace = NoTrace
  /\ unit = NoUnit

ExtentStep ==
  /\ trace.op = "none"
  /\ \E capabilities \in ExtentCapabilities,
        width \in DesiredSizes, height \in DesiredSizes :
       ChooseSwapExtent(capabilities, width, height)

QueueFamiliesStep ==
  /\ trace.op = "none"
  /\ \E queue_families \in QueueFamilyLists, uninitialized \in UninitializedIndices :
       FindQueueFamilies(queue_families, uninitialized)

DeviceNext ==
  \/ ExtentStep
  \/ QueueFamiliesStep
  \/ CreateLogicalDevice

DeviceSpec == DeviceInit /\ [][DeviceNext]_vars

(***************************************************************************)
(* Properties.                                                             *)
(***************************************************************************)
BetweenFrames == pc \in {"idle", "returned"} /\ device = "live"

\* C1: whenever no draw_frame call is executing on an initialized engine,
\* the in-flight fence of slot current_frame is signaled or a pending
\* graphics-queue submission of that slot will signal it.
C1_IdleFenceSignaledOrPending ==
  BetweenFrames =>
    \/ in_flight_fences[current_frame] = "signaled"
    \/ pending[current_frame] > 0

\* C2: with a GPU that completes every submission and a window that is
\* eventually visible, and acquisition and presentation reporting only
\* success, suboptimal or out-of-date, every draw_frame call that was entered
\* eventually returns.
C2_EveryDrawFrameReturns == (pc = "wait") ~> (pc = "returned")

\* C3: current_frame is always 0 or 1; it is 0 after init; a draw_frame call
\* that submitted and presented a frame and returns Success leaves it at
\* (current_frame + 1) mod 2; every other return of draw_frame, and every
\* step inside a call, leaves it unchanged.
C3_FrameIndexCycles ==
  [][ /\ current_frame' \in {0, 1}
      /\ (device = "null" /\ device' = "live") => current_frame' = 0
      /\ (pc # "returned" /\ pc' = "returned") =>
           current_frame' =
             IF call'.result = "Success" /\ call'.submit = "ok" /\ call'.present # "none"
               THEN (call'.frame + 1) % 2
               ELSE call'.frame
      /\ (pc \in {"wait", "record", "present", "recreate_wait"}) =>
           (pc' = "returned" \/ current_frame' = current_frame)
    ]_vars

\* C3 witness: two successful frames have used slots 0 and 1 and the index
\* is back at 0.
C3_Witness ==
  /\ pc = "returned"
  /\ call.result = "Success"
  /\ call.submit = "ok"
  /\ call.frame = 1
  /\ current_frame = 0

C5_OutOfDateAcquireAbandonsAndRecreates ==
  [][ /\ call'.acquire = "VK_ERROR_OUT_OF_DATE_KHR" =>
           /\ ~call'.recorded
           /\ call'.submit = "none"
           /\ call'.present = "none"
           /\ call'.recreated
           /\ pc' \in {"recreate_wait", "recreate_idle", "returned"}
           /\ pc' = "returned" =>
                /\ call'.recreate_result \in {"Success", "Error"}
                /\ call'.result = call'.recreate_result
                /\ call'.recreate_result = "Success" => swapchain' = "live"
      /\ (pc = "wait" /\ call'.acquire = "VK_ERROR_OUT_OF_DATE_KHR") =>
           /\ pc' = "recreate_wait"
           /\ recreate_args' = window_size
    ]_vars

\* C5 witness: a call whose acquisition was out-of-date has returned after a
\* successful recreation.
C5_Witness ==
  /\ pc = "returned"
  /\ call.acquire = "VK_ERROR_OUT_OF_DATE_KHR"
  /\ call.recreate_result = "Success"
  /\ swapchain = "live"

\* C6: when acquisition reports suboptimal (and no driver call of the frame
\* fails), the frame is recorded, submitted and presented, and the swapchain
\* is recreated after that presentation.
C6_SuboptimalAcquireRecreatesAfterPresent ==
  (pc = "returned" /\ call.acquire = "VK_SUBOPTIMAL_KHR" /\ ~call.record_failed
     /\ call.submit # "fail" /\ call.present # "VK_ERROR_DEVICE_LOST") =>
    /\ call.recorded
    /\ call.submit = "ok"
    /\ call.present # "none"
    /\ call.recreate_result # "none"

\* C7: whenever moss__recreate_swapchain gets past the minimized-window wait
\* and calls moss__create_swapchain, the width and height it passes are both
\* non-zero.
C7_RecreateNeverPassesZeroExtent ==
  pc = "recreate_idle" => ~IsMinimized(recreate_args)

\* C8: when acquisition reports out-of-date, or presentation reports
\* out-of-date or suboptimal, or the resize flag is set at present time,
\* draw_frame recreates the swapchain and returns Error if and only if that
\* recreation fails, and Success otherwise.
C8_Triggered ==
  \/ call.acquire = "VK_ERROR_OUT_OF_DATE_KHR"
  \/ call.present \in {"VK_ERROR_OUT_OF_DATE_KHR", "VK_SUBOPTIMAL_KHR"}
  \/ (call.present # "none" /\ call.resize_at_present)

C8_ErrorIffRecreationFails ==
  (pc = "returned" /\ C8_Triggered) =>
    /\ call.recreate_result \in {"Success", "Error"}
    /\ call.result \in {"Success", "Error"}
    /\ call.result = "Error" <=> call.recreate_result = "Error"

\* C8 witness: the resize flag was set at a successful present, the
\* recreation failed and the call returned Error.
C8_Witness ==
  /\ pc = "returned"
  /\ call.present = "VK_SUCCESS"
  /\ call.resize_at_present
  /\ call.recreate_result = "Error"
  /\ call.result = "Error"

\* C9: if command-buffer recording, queue submission or presentation fails
\* with a driver error that is not an invalidation result, the call returns
\* Error.
C9_RecordSubmitPresentFailureReturnsError ==
  (pc = "returned"
     /\ (call.record_failed \/ call.submit = "fail"
           \/ call.present = "VK_ERROR_DEVICE_LOST")) =>
    call.result = "Error"

\* C10: after draw_frame returned Error because acquisition, submission or
\* presentation failed with a non-invalidation driver error, nothing was
\* destroyed and the next call cannot block forever: the fence it will wait
\* on is signaled or a pending submission will signal it.
C10_HardFailure ==
  \/ call.acquire = "VK_ERROR_DEVICE_LOST"
  \/ call.submit = "fail"
  \/ (call.present = "VK_ERROR_DEVICE_LOST" /\ ~call.recreated)

C10_EngineUsableAfterHardFailure ==
  (pc = "returned" /\ call.result = "Error" /\ C10_HardFailure) =>
    /\ ~call.recreated
    /\ \/ in_flight_fences[current_frame] = "signaled"
       \/ pending[current_frame] > 0

(***************************************************************************)
(* Properties of the lifecycle and of the swapchain manager, stated on the *)
(* calls of the last public call (trace) and on the handles.               *)
(***************************************************************************)
\* The kinds of objects that are destroyed one by one (command buffers are
\* freed with their pool), and those of the graphics API among them.
ObjectKinds ==
  { "app", "window", "instance", "surface", "device", "swapchain", "image_view",
    "render_pass", "shader_module", "pipeline_layout", "pipeline", "framebuffer",
    "command_pool", "buffer", "memory", "semaphore", "fence" }

GraphicsKinds == ObjectKinds \ {"app", "window"}

ChainKinds == {"framebuffer", "image_view", "swapchain"}

CountCalls(calls, c) == Cardinality({i \in DOMAIN calls : calls[i] = c})

LiveIn(arr) == Cardinality({i \in DOMAIN arr : arr[i] = "live"})

AllHandlesNull ==
  /\ window = "null"
  /\ device = "null"
  /\ swapchain = "null"
  /\ swapchain_image_views = NullHandles
  /\ swapchain_framebuffers = NullHandles
  /\ in_flight_fences = NullSlots
  /\ resources = NullResources

\* A step that is the whole of a public moss_engine_deinit call.
DeinitStep == pc = "deinit_wait" /\ pc' = "idle"

\* A step that is moss__recreate_swapchain past its waits.
RecreateStep == pc = "recreate_idle" /\ pc' = "returned"

\* C11: calling moss_engine_deinit twice in a row makes the second call a
\* no-op: it makes no destroy, close or teardown call and leaves the engine
\* as the first call left it.
C11_SecondDeinitIsNoOp ==
  [][ (DeinitStep /\ trace.op = "deinit") =>
        /\ trace'.calls = <<>>
        /\ UNCHANGED << window, device, swapchain_vars, in_flight_fences,
                        current_frame, resources >>
    ]_vars

\* C12: a successful moss_engine_init followed immediately by
\* moss_engine_deinit leaves no handle in the engine and no object alive:
\* every object the init created was destroyed, by the init or by the deinit.
C12_InitThenDeinitLeavesNothingLive ==
  [][ (DeinitStep /\ trace.op = "init" /\ trace.result = "Success") =>
        /\ AllHandlesNull'
        /\ \A k \in ObjectKinds :
             CountCalls(trace.calls, <<"create", k, "live">>) =
               CountCalls(trace.calls, <<"destroy", k, "live">>)
                 + CountCalls(trace'.calls, <<"destroy", k, "live">>)
    ]_vars

\* C13: when a step of moss_engine_init fails, init calls moss_engine_deinit
\* and returns Error, and no object created during that init stays alive.
C13_FailedInitUnwinds ==
  (trace.op = "init" /\ trace.result = "Error") =>
    /\ CountCalls(trace.calls, <<"call", "moss_engine_deinit", "none">>) = 1
    /\ AllHandlesNull
    /\ \A k \in ObjectKinds :
         CountCalls(trace.calls, <<"create", k, "live">>) =
           CountCalls(trace.calls, <<"destroy", k, "live">>)

\* C14: no destroy call of the graphics API is given a handle that was
\* already destroyed or that never was created.
C14_NoDoubleOrStrayDestroy ==
  \A i \in DOMAIN trace.calls :
    (trace.calls[i][1] \in {"destroy", "destroy_on_invalid_device"}
       /\ trace.calls[i][2] \in GraphicsKinds) =>
      trace.calls[i][3] = "live"

RECURSIVE RemoveLast(_, _)
RemoveLast(seq, k) ==
  IF seq = <<>> THEN <<>>
  ELSE IF seq[Len(seq)] = k THEN SubSeq(seq, 1, Len(seq) - 1)
  ELSE Append(RemoveLast(SubSeq(seq, 1, Len(seq) - 1), k), seq[Len(seq)])

\* The kinds of the objects that calls created and did not destroy, in the
\* order of their creation.
RECURSIVE Surviving(_, _)
Surviving(calls, acc) ==
  IF calls = <<>> THEN acc
  ELSE LET c == Head(calls)
       IN  Surviving(Tail(calls),
             IF c[2] \notin ObjectKinds \/ c[3] # "live" THEN acc
             ELSE IF c[1] = "create" THEN Append(acc, c[2])
             ELSE IF c[1] \in {"destroy", "leak"} THEN RemoveLast(acc, c[2])
             ELSE acc)

\* The kinds of the objects that calls destroyed, in the order of the calls.
DestroyedKinds(calls) ==
  LET d == SelectSeq(calls, LAMBDA c : c[1] = "destroy" /\ c[2] \in ObjectKinds
                                         /\ c[3] = "live")
  IN  [i \in 1 .. Len(d) |-> d[i][2]]

Reverse(seq) == [i \in 1 .. Len(seq) |-> seq[Len(seq) + 1 - i]]

\* C15: moss_engine_deinit destroys the engine's objects in the exact
\* reverse of the order in which moss_engine_init created them.
C15_DeinitReversesInit ==
  [][ (DeinitStep /\ trace.op = "init" /\ trace.result = "Success") =>
        DestroyedKinds(trace'.calls) = Reverse(Surviving(trace.calls, <<>>))
    ]_vars

\* What each kind of object is built from, as far as C16 states it.
BuiltFrom(kind) ==
  CASE kind = "swapchain"       -> {"device"}
    [] kind = "image_view"      -> {"device", "swapchain"}
    [] kind = "render_pass"     -> {"swapchain", "image_view"}
    [] kind = "pipeline_layout" -> {"swapchain", "image_view"}
    [] kind = "pipeline"        -> {"swapchain", "image_view"}
    [] kind = "framebuffer"     -> {"swapchain", "image_view"}
    [] kind = "buffer"          -> {"device"}
    [] kind = "memory"          -> {"device"}
    [] kind = "command_buffer"  -> {"command_pool"}
    [] kind = "semaphore"       -> {"device"}
    [] kind = "fence"           -> {"device"}
    [] OTHER                    -> {}

Creations(calls) == {i \in DOMAIN calls : calls[i][1] = "create" /\ calls[i][3] = "live"}

\* C16: during moss_engine_init every object is created after the objects
\* it is built from: the device before the swapchain, the swapchain and its
\* image views before the render pass, pipeline and framebuffers, both
\* command pools before the vertex crate is filled (staging, copy command
\* buffer), and the frame slots (command buffers, semaphores, fences) last.
C16_InitCreatesInDependencyOrder ==
  trace.op = "init" =>
    LET calls == trace.calls
        made  == Creations(calls)
        staged == {i \in made : calls[i][2] = "buffer"
                                  /\ \E j \in made : j < i /\ calls[j][2] = "buffer"}
        slots == {i \in made : calls[i][2] \in {"semaphore", "fence"}}
    IN  /\ \A i \in made : \A need \in BuiltFrom(calls[i][2]) :
             \E j \in made : j < i /\ calls[j][2] = need
        /\ \A i \in staged :
             Cardinality({j \in made : j < i /\ calls[j][2] = "command_pool"}) = 2
        /\ \A i \in slots : \A j \in made :
             j > i => calls[j][2] \in {"semaphore", "fence"}
        /\ \A i \in slots :
             Cardinality({j \in made : j < i /\ calls[j][2] = "command_buffer"})
               >= 1 + MAX_FRAMES_IN_FLIGHT

\* C16 witness: an init that created everything and returned Success.
C16_Witness ==
  /\ trace.op = "init"
  /\ trace.result = "Success"
  /\ device = "live"
  /\ CountCalls(trace.calls, <<"create", "fence", "live">>) = MAX_FRAMES_IN_FLIGHT
  /\ CountCalls(trace.calls, <<"create", "framebuffer", "live">>) = swapchain_image_count

\* C17: moss_engine_should_close returns true without a call to the window
\* system when there is no window; otherwise it updates the window system
\* once and returns what the window answers.
C17_ShouldClose ==
  trace.op = "should_close" =>
    IF window = "null"
      THEN trace.result = "true" /\ trace.calls = <<>>
      ELSE trace.calls = << <<"call", "stuffy_app_update", "none">>,
                            <<"call", "stuffy_window_should_close", trace.result>> >>

\* C17 witness: with a window, the window answered that no close was
\* requested and should_close returned false.
C17_Witness ==
  /\ trace.op = "should_close"
  /\ window = "live"
  /\ trace.result = "false"

\* A complete chain: the handle is live, the first image-count views and
\* framebuffers are live and the other array elements are null.
C18_LiveChain ==
  /\ swapchain = "live"
  /\ LiveIn(swapchain_image_views) = swapchain_image_count
  /\ LiveIn(swapchain_framebuffers) = swapchain_image_count
  /\ \A i \in ImageIdx : i >= swapchain_image_count =>
       swapchain_image_views[i] = "null" /\ swapchain_framebuffers[i] = "null"

\* C18: after a successful swapchain recreation exactly one swapchain is
\* alive, with as many image views and framebuffers as it has images, and
\* every live object of the chain it replaced was destroyed: one chain was
\* created, image-count views and framebuffers were created, and as many
\* live objects were destroyed as the engine held before.
C18_RecreationKeepsOneChain ==
  [][ (RecreateStep /\ call'.recreate_result = "Success") =>
        /\ C18_LiveChain'
        /\ CountCalls(trace'.calls, <<"create", "swapchain", "live">>) = 1
        /\ CountCalls(trace'.calls, <<"create", "image_view", "live">>)
             = swapchain_image_count'
        /\ CountCalls(trace'.calls, <<"create", "framebuffer", "live">>)
             = swapchain_image_count'
        /\ CountCalls(trace'.calls, <<"destroy", "swapchain", "live">>)
             = (IF swapchain = "live" THEN 1 ELSE 0)
        /\ CountCalls(trace'.calls, <<"destroy", "image_view", "live">>)
             = LiveIn(swapchain_image_views)
        /\ CountCalls(trace'.calls, <<"destroy", "framebuffer", "live">>)
             = LiveIn(swapchain_framebuffers)
    ]_vars

\* C18 witness: a recreation that replaced a complete live chain has
\* returned Success.
C18_Witness ==
  /\ pc = "returned"
  /\ call.recreate_result = "Success"
  /\ C18_LiveChain
  /\ CountCalls(trace.calls, <<"destroy", "swapchain", "live">>) = 1
  /\ CountCalls(trace.calls, <<"destroy", "framebuffer", "live">>) = MinReportedImages

\* C19: when moss__recreate_swapchain fails, no partially built chain is
\* left: the chain handle, its image views and its framebuffers are absent.
C19_FailedRecreationLeavesNoChain ==
  (pc = "returned" /\ call.recreate_result = "Error") =>
    /\ swapchain = "null"
    /\ swapchain_image_views = NullHandles
    /\ swapchain_framebuffers = NullHandles

\* The calls of the moss__cleanup_swapchain that a call began with: the
\* destroy calls on the chain's kinds made before anything was created (in a
\* failed init, after moss_engine_deinit was entered).
FirstIndex(calls, P(_)) ==
  IF \E i \in DOMAIN calls : P(calls[i])
    THEN CHOOSE i \in DOMAIN calls : P(calls[i]) /\ \A j \in 1 .. (i - 1) : ~P(calls[j])
    ELSE Len(calls) + 1

CleanupCalls(calls) ==
  LET IsDeinit(c) == c = <<"call", "moss_engine_deinit", "none">>
      IsCreate(c) == c[1] = "create"
      start == IF \E i \in DOMAIN calls : IsDeinit(calls[i])
                 THEN FirstIndex(calls, IsDeinit) + 1 ELSE 1
      rest  == SubSeq(calls, start, Len(calls))
      part  == SubSeq(rest, 1, FirstIndex(rest, IsCreate) - 1)
  IN  SelectSeq(part, LAMBDA c : c[1] = "destroy" /\ c[2] \in ChainKinds)

CleanupRank(kind) ==
  CASE kind = "framebuffer" -> 1 [] kind = "image_view" -> 2 [] kind = "swapchain" -> 3

\* C20: moss__cleanup_swapchain destroys all live framebuffers first, then
\* all live image views, then the chain handle, never passing a null handle,
\* and leaves image count, format and extent at zero; when nothing was
\* created or it ran before, it destroys nothing.
C20_CleanupSwapchain ==
  [][ LET c == CleanupCalls(trace'.calls)
      IN  /\ (DeinitStep \/ RecreateStep \/ (trace'.op = "init" /\ trace' # trace)) =>
               /\ \A i, j \in DOMAIN c : i < j => CleanupRank(c[i][2]) <= CleanupRank(c[j][2])
               /\ \A i \in DOMAIN c : c[i][3] # "null"
          /\ (DeinitStep \/ RecreateStep) =>
               /\ CountCalls(c, <<"destroy", "framebuffer", "live">>)
                    = LiveIn(swapchain_framebuffers)
               /\ CountCalls(c, <<"destroy", "image_view", "live">>)
                    = LiveIn(swapchain_image_views)
               /\ CountCalls(c, <<"destroy", "swapchain", "live">>)
                    = (IF swapchain = "live" THEN 1 ELSE 0)
               /\ (swapchain = "null" /\ swapchain_image_count = 0) => c = <<>>
          /\ (DeinitStep \/ (RecreateStep /\ swapchain' = "null")) =>
               /\ swapchain' = "null"
               /\ swapchain_image_count' = 0
               /\ swapchain_image_format' = VK_FORMAT_UNDEFINED
               /\ swapchain_extent' = <<0, 0>>
               /\ swapchain_image_views' = NullHandles
               /\ swapchain_framebuffers' = NullHandles
    ]_vars

\* C20 witness: a deinit whose cleanup destroyed the framebuffers, the image
\* views and the chain of a complete swapchain.
C20_Witness ==
  /\ trace.op = "deinit"
  /\ CountCalls(trace.calls, <<"destroy", "framebuffer", "live">>) = MinReportedImages
  /\ CountCalls(trace.calls, <<"destroy", "image_view", "live">>) = MinReportedImages
  /\ CountCalls(trace.calls, <<"destroy", "swapchain", "live">>) = 1
  /\ swapchain_image_count = 0

\* C21: whenever a swapchain is live and neither init nor a recreation is
\* in progress (after a successful init, between draw_frame calls), the
\* number of swapchain images, of live image views and of live framebuffers
\* are equal.
C21_ImagesViewsFramebuffersAgree ==
  (swapchain = "live" /\ pc = "idle") =>
    /\ LiveIn(swapchain_image_views) = swapchain_image_count
    /\ LiveIn(swapchain_framebuffers) = swapchain_image_count

\* The position in calls at which the driver reported more images than the
\* cap (0: it never did).
AboveCapAt(calls) ==
  LET hits == {i \in DOMAIN calls :
                 calls[i] = <<"call", "vkGetSwapchainImagesKHR", "above_cap">>}
  IN  IF hits = {} THEN 0 ELSE CHOOSE i \in hits : \A j \in hits : i <= j

\* C22: when the driver reports more swapchain images than
\* MAX_SWAPCHAIN_IMAGE_COUNT, moss__create_swapchain returns Error, so the
\* init or the recreation fails: no image view is created for that chain
\* and the image count is not cut down to the cap.
C22_ImageCountAboveCapIsAnError ==
  AboveCapAt(trace.calls) # 0 =>
    /\ \A i \in DOMAIN trace.calls :
         i > AboveCapAt(trace.calls) => trace.calls[i][1] # "create"
    /\ trace.op = "init" => trace.result = "Error"
    /\ trace.op # "init" =>
         /\ pc = "returned"
         /\ call.recreate_result = "Error"
         /\ call.result = "Error"
         /\ swapchain_image_count > MAX_SWAPCHAIN_IMAGE_COUNT

\* C22 witness: a recreation in which the driver reported more images than
\* the cap has returned Error.
C22_Witness ==
  /\ pc = "returned"
  /\ AboveCapAt(trace.calls) # 0
  /\ call.recreate_result = "Error"
  /\ swapchain = "live"
  /\ swapchain_image_count = MaxReportedImages

(***************************************************************************)
(* Crate manager: creation and its roll back.                              *)
(***************************************************************************)
\* The number of entries of calls equal to entry.
CountOf(calls, entry) == Len(SelectSeq(calls, LAMBDA c : c = entry))

\* Every step of a moss__create_crate call went well in the driver: the
\* buffer and the memory were created and the memory was bound.
CreateStepsSucceeded(calls) ==
  /\ CountOf(calls, <<"create", "buffer", "live">>) = 1
  /\ CountOf(calls, <<"create", "memory", "live">>) = 1
  /\ CountOf(calls, <<"call", "vkBindBufferMemory", "ok">>) = 1

\* Every buffer and memory that calls created was destroyed through a valid
\* device, and nothing was destroyed through another one or lost.
RolledBack(calls) ==
  /\ \A kind \in {"buffer", "memory"} :
       CountOf(calls, <<"destroy", kind, "live">>)
         = CountOf(calls, <<"create", kind, "live">>)
  /\ \A i \in DOMAIN calls : calls[i][1] \notin {"destroy_on_invalid_device", "leak"}

\* C23: when a step of moss__create_crate fails (buffer creation, memory
\* type selection, memory allocation, binding), the call returns Error, every
\* buffer and memory it created has been destroyed through the device that
\* created it, and the crate holds no live buffer or memory.
C23_FailedCreateRollsBack ==
  (trace.op = "moss__create_crate" /\ ~CreateStepsSucceeded(trace.calls))
    => /\ trace.result = "Error"
       /\ RolledBack(trace.calls)
       /\ resources.vertex_crate.buffer # "live"
       /\ resources.vertex_crate.memory # "live"

\* C24: when moss__fill_crate has returned, with Success or with Error, the
\* staging crate's buffer and memory are no longer allocated: each one the
\* call created was destroyed through a valid device, and the staging crate
\* holds no live handle.
C24_StagingGoneAfterFill ==
  (trace.op = "moss__fill_crate")
    => /\ RolledBack(trace.calls)
       /\ unit.out.staging.buffer # "live"
       /\ unit.out.staging.memory # "live"

\* C25: after moss__fill_crate succeeds on a destination crate of allocated
\* size S, the first S bytes of the destination's memory are the first S
\* bytes of the source (as many of them as the source has).
C25_FillCopiesSource ==
  (trace.op = "moss__fill_crate" /\ trace.result = "Success")
    => \A i \in 1 .. resources.vertex_crate.size :
         i <= Len(unit.in.source_memory)
           => unit.out.destination_memory[i] = unit.in.source_memory[i]

(***************************************************************************)
(* Crate manager: destruction.                                             *)
(***************************************************************************)
\* Buffer, memory and size are all set, with the devices that created them.
FullyValid(crate) ==
  /\ crate.buffer = "live"
  /\ crate.memory = "live"
  /\ crate.size > 0
  /\ crate.original_device = "live"
  /\ crate.original_physical_device = "live"

\* C26: moss__destroy_crate frees the memory before it destroys the buffer,
\* leaves every field of the crate null / zero, and makes no driver call on
\* a crate that is already destroyed or zero-initialised; the crate is fully
\* valid or fully null whenever it is observed.
C26_DestroyCrate ==
  /\ FullyValid(resources.vertex_crate) \/ resources.vertex_crate = NullCrate
  /\ (trace.op = "moss__destroy_crate")
       => /\ resources.vertex_crate = NullCrate
          /\ trace.calls =
               (IF unit.in.crate.memory # "null"
                  THEN << <<"destroy", "memory", unit.in.crate.memory>> >> ELSE <<>>)
               \o (IF unit.in.crate.buffer # "null"
                     THEN << <<"destroy", "buffer", unit.in.crate.buffer>> >> ELSE <<>>)
          /\ (unit.in.crate = NullCrate) => (trace.calls = <<>>)

\* A fully valid crate was destroyed: its memory, then its buffer.
C26_Witness ==
  /\ trace.op = "moss__destroy_crate"
  /\ FullyValid(unit.in.crate)
  /\ trace.calls = << <<"destroy", "memory", "live">>, <<"destroy", "buffer", "live">> >>

\* moss__destroy_crate was called on a crate it had already destroyed.
C26_DestroyedTwice ==
  /\ trace.op = "moss__destroy_crate"
  /\ trace.after = "moss__destroy_crate"
  /\ unit.in.crate = NullCrate

(***************************************************************************)
(* Memory type selection.                                                  *)
(***************************************************************************)
\* Bit i of mask.
BitSet(mask, i) == (mask \div (2 ^ i)) % 2 = 1

\* Every bit of required is a bit of flags, bit by bit.
IncludesAll(flags, required) ==
  \A b \in 0 .. 2 : BitSet(required, b) => BitSet(flags, b)

\* Memory type i (from 0) of memory_types may be used and has what is
\* required.
Suitable(memory_types, type_filter, properties, i) ==
  /\ i \in 0 .. Len(memory_types) - 1
  /\ BitSet(type_filter, i)
  /\ IncludesAll(memory_types[i + 1], properties)

\* C27: moss__select_suitable_memory_type returns the least index i such
\* that bit i of the filter is set and memory type i has every required
\* property, and Error when there is no such index.
C27_LeastSuitableMemoryType ==
  (trace.op = "moss__select_suitable_memory_type")
    => LET in == unit.in
           suitable == { i \in 0 .. Len(in.memory_types) - 1 :
                           Suitable(in.memory_types, in.type_filter, in.properties, i) }
       IN  IF suitable = {}
             THEN trace.result = "Error"
             ELSE /\ trace.result = "Success"
                  /\ unit.out.memory_type \in suitable
                  /\ \A i \in suitable : unit.out.memory_type <= i

\* The selector skipped a memory type that the filter allows and lacks a
\* property, and one that has the properties and is filtered out, and found
\* a later one.
C27_Witness ==
  /\ trace.op = "moss__select_suitable_memory_type"
  /\ trace.result = "Success"
  /\ unit.out.memory_type = 1
  /\ BitSet(unit.in.type_filter, 0)
  /\ ~IncludesAll(unit.in.memory_types[1], unit.in.properties)
  /\ unit.in.properties # 0

(***************************************************************************)
(* Buffer sharing mode.                                                    *)
(***************************************************************************)
\* The first count queue family indices held by x (the engine, a crate or a
\* creation request).
IndexList(x) == SubSeq(x.shared_queue_family_indices, 1, x.shared_queue_family_index_count)

\* x has sharing mode mode and the index list of y.
SharesLike(x, mode, y) ==
  /\ x.sharing_mode = mode
  /\ x.shared_queue_family_index_count = y.shared_queue_family_index_count
  /\ IndexList(x) = IndexList(y)

\* The crate was created from the vertex crate's request.
VertexCrateCreated ==
  /\ trace.op = "moss__create_crate"
  /\ trace.result = "Success"
  /\ unit.in.info = VertexCrateInfo(resources, device)

\* The staging crate of a fill was created.
StagingCrateCreated ==
  /\ trace.op = "moss__fill_crate"
  /\ unit.out.staging_created.buffer = "live"
  /\ unit.out.staging_created.memory = "live"

\* C28: after moss__init_buffer_sharing_mode the engine's sharing mode is
\* EXCLUSIVE with an empty index list when the graphics and transfer queue
\* families are equal, and CONCURRENT with the two indices graphics,
\* transfer otherwise; a crate created from the vertex crate's request, and
\* the staging crate created inside a fill of a crate, have the engine's,
\* respectively the filled crate's, mode and index list.
C28_SharingMode ==
  /\ (trace.op = "moss__init_buffer_sharing_mode")
       => IF unit.in.graphics_family = unit.in.transfer_family
            THEN /\ resources.buffer_sharing_mode = VK_SHARING_MODE_EXCLUSIVE
                 /\ IndexList(resources) = <<>>
            ELSE /\ resources.buffer_sharing_mode = VK_SHARING_MODE_CONCURRENT
                 /\ IndexList(resources)
                      = <<unit.in.graphics_family, unit.in.transfer_family>>
  /\ VertexCrateCreated
       => SharesLike(resources.vertex_crate, resources.buffer_sharing_mode, resources)
  /\ StagingCrateCreated
       => SharesLike(unit.out.staging_created, resources.vertex_crate.sharing_mode,
                     resources.vertex_crate)

\* The staging crate of a fill of a vertex crate shared by two queue families
\* was created.
C28_Witness ==
  /\ StagingCrateCreated
  /\ resources.buffer_sharing_mode = VK_SHARING_MODE_CONCURRENT
  /\ SharesLike(resources.vertex_crate, resources.buffer_sharing_mode, resources)
  /\ IndexList(unit.out.staging_created) = <<0, 1>>

\* C29: a request to create a crate with sharing mode CONCURRENT and no
\* queue family index is answered with Error, or with a crate whose sharing
\* mode is EXCLUSIVE.
C29_ConcurrentWithoutIndices ==
  (/\ trace.op = "moss__create_crate"
   /\ unit.in.info.sharing_mode = VK_SHARING_MODE_CONCURRENT
   /\ unit.in.info.shared_queue_family_index_count = 0)
    => \/ trace.result = "Error"
       \/ /\ trace.result = "Success"
          /\ resources.vertex_crate.sharing_mode = VK_SHARING_MODE_EXCLUSIVE

(***************************************************************************)
(* Resize notifications.                                                   *)
(***************************************************************************)
\* The step of draw_frame that recreates the swapchain after presentation:
\* it reads the window's framebuffer size in the step itself.
RecreationAtPresent ==
  /\ pc = "present"
  /\ pc' = "recreate_wait"
  /\ recreate_caller' = "present"
  /\ recreate_args' = window_size

\* C30: a resize notification is not lost.  The flag set by the resize
\* callback is cleared only by the step of draw_frame that starts a
\* swapchain recreation after presentation, with the framebuffer size read in
\* that step; and when draw_frame keeps being called and the driver calls
\* succeed, a flag that is set is eventually cleared, so such a recreation
\* takes place after the callback.
C30_ResizeNeverLost ==
  /\ [][(framebuffer_resize_requsted /\ ~framebuffer_resize_requsted')
          => RecreationAtPresent]_vars
  /\ framebuffer_resize_requsted ~> ~framebuffer_resize_requsted

\* A frame that was presented with VK_SUCCESS recreates the swapchain because
\* of the flag alone, and has cleared it.
C30_Witness ==
  /\ pc = "recreate_wait"
  /\ recreate_caller = "present"
  /\ call.present = "VK_SUCCESS"
  /\ call.resize_at_present
  /\ ~framebuffer_resize_requsted

(***************************************************************************)
(* Destruction and the GPU.                                                *)
(***************************************************************************)
\* A destroy call was made on a device object.
HasDestroy(calls) == \E i \in DOMAIN calls : calls[i][1] = "destroy"

CopyFinishedBetween(calls, i, j) ==
  \E k \in (i + 1) .. (j - 1) :
    /\ calls[k][1] = "call"
    /\ calls[k][2] = "vkQueueWaitIdle"
    /\ calls[k][3] \in {"idle", "failed_idle"}

\* C32: once moss__fill_crate has submitted the staging-to-destination copy,
\* it frees the copy's command buffer and destroys the staging crate only
\* after the transfer queue has finished the copy, and it returns Success only
\* then.
C32_NothingFreedDuringCopy ==
  (trace.op = "moss__fill_crate")
    => \A i \in DOMAIN trace.calls :
         (trace.calls[i] = <<"call", "vkQueueSubmit", "ok">>)
           => /\ \A j \in DOMAIN trace.calls :
                   (j > i /\ trace.calls[j][1] \in {"destroy", "destroy_on_invalid_device"})
                     => CopyFinishedBetween(trace.calls, i, j)
              /\ (trace.result = "Success")
                   => CopyFinishedBetween(trace.calls, i, Len(trace.calls) + 1)

\* r is v brought into lo..hi: within the two, and v itself when v already is.
ClampedInto(r, v, lo, hi) ==
  /\ lo <= r /\ r <= hi
  /\ (lo <= v /\ v <= hi) => r = v
  /\ v < lo => r = lo
  /\ v > hi => r = hi

\* C33: moss__choose_swap_extent returns the surface's current extent
\* unchanged when that extent is fixed (not the 'any extent' value), and
\* otherwise the desired width and height, each clamped into the range from
\* minImageExtent to maxImageExtent.
C33_ChosenExtent ==
  trace.op = "moss__choose_swap_extent"
    => LET capabilities == unit.in.capabilities
           extent == unit.out.extent
       IN  IF capabilities.currentExtent # ANY_EXTENT
             THEN extent = capabilities.currentExtent
             ELSE /\ ClampedInto(extent[1], unit.in.width,
                                 capabilities.minImageExtent[1],
                                 capabilities.maxImageExtent[1])
                  /\ ClampedInto(extent[2], unit.in.height,
                                 capabilities.minImageExtent[2],
                                 capabilities.maxImageExtent[2])

\* Any extent is accepted, the desired width is above the maximum and the
\* desired height below the minimum: both are clamped.
C33_Witness ==
  /\ trace.op = "moss__choose_swap_extent"
  /\ unit.in.capabilities.currentExtent = ANY_EXTENT
  /\ unit.in.width > unit.in.capabilities.maxImageExtent[1]
  /\ unit.in.height < unit.in.capabilities.minImageExtent[2]
  /\ unit.out.extent = << unit.in.capabilities.maxImageExtent[1],
                          unit.in.capabilities.minImageExtent[2] >>

\* The indices (from 0) of the families of a list that have a property.
GraphicsFamilies(queue_families) ==
  { i - 1 : i \in { k \in DOMAIN queue_families : queue_families[k].graphics } }

PresentFamilies(queue_families) ==
  { i - 1 : i \in { k \in DOMAIN queue_families : queue_families[k].present } }

DedicatedTransferFamilies(queue_families) ==
  { i - 1 : i \in { k \in DOMAIN queue_families :
                      queue_families[k].transfer /\ ~queue_families[k].graphics } }

\* C34: for every list of queue families, the device is eligible only when
\* moss__find_queue_families found a graphics family and a present family,
\* and the transfer index is a transfer-capable family without graphics
\* when the list has one, and the graphics index otherwise.
C34_QueueFamilies ==
  trace.op = "moss__find_queue_families"
    => LET queue_families == unit.in.queue_families
           indices == unit.out.indices
       IN  /\ unit.out.suitable
                => /\ indices.graphics_family_found
                   /\ indices.present_family_found
                   /\ indices.graphics_family \in GraphicsFamilies(queue_families)
                   /\ indices.present_family \in PresentFamilies(queue_families)
           /\ IF DedicatedTransferFamilies(queue_families) # {}
                THEN indices.transfer_family \in DedicatedTransferFamilies(queue_families)
                ELSE indices.transfer_family = indices.graphics_family

\* An eligible device whose transfer family is a dedicated one after the
\* graphics family.
C34_Witness ==
  /\ trace.op = "moss__find_queue_families"
  /\ unit.out.suitable
  /\ unit.out.indices.transfer_family \in DedicatedTransferFamilies(unit.in.queue_families)
  /\ unit.out.indices.transfer_family > unit.out.indices.graphics_family

\* C37: for every result of the queue-family selection, also one where the
\* present and the transfer family are the same family and differ from the
\* graphics family, the queue-creation entries moss__create_logical_device
\* passes have pairwise distinct family indices and are at most 3.
C37_DistinctQueueEntries ==
  trace.op = "moss__create_logical_device"
    => LET infos == unit.out.queue_create_infos
       IN  /\ Len(infos) <= 3
           /\ \A i \in DOMAIN infos, j \in DOMAIN infos :
                i # j => infos[i] # infos[j]

\* The step of draw_frame that calls vkAcquireNextImageKHR, and the one that
\* records the command buffer of the frame.
AcquireStep == pc = "wait" /\ pc' # "wait"

RecordStep == pc = "record" /\ pc' # "record"

\* C35: after a successful init, in every sequence of draw_frame calls, also
\* after an earlier draw_frame returned Error, draw_frame never passes a null
\* swapchain to the image acquisition and never records a render pass
\* against a framebuffer that is null or destroyed.
C35_DrawFrameUsesLiveChain ==
  [][ /\ AcquireStep => swapchain = "live"
      /\ RecordStep => /\ current_image_index \in DOMAIN swapchain_framebuffers
                       /\ swapchain_framebuffers[current_image_index] = "live" ]_vars

\* A handle read from beyond the end of one of the fixed-size arrays was
\* handed to the driver.
OverrunIn(calls) ==
  \E i \in DOMAIN calls : /\ calls[i][2] \in {"framebuffer", "image_view"}
                          /\ calls[i][3] = "garbage"

\* C36: swapchain_image_count is at most MAX_SWAPCHAIN_IMAGE_COUNT whenever
\* the creation of image views or framebuffers or the cleanup iterates the
\* fixed-size arrays, also in the deinit after a failed swapchain creation:
\* the cleanup of a recreation or of a deinit starts with a count within
\* the arrays, and no call of the engine reads a handle from beyond them.
C36_LoopsStayInsideArrays ==
  [][ /\ (RecreateStep \/ DeinitStep)
         => swapchain_image_count <= MAX_SWAPCHAIN_IMAGE_COUNT
      /\ ~OverrunIn(trace'.calls) ]_vars

\* C38: in moss__fill_crate, whatever the requested size and the allocation
\* size the driver rounds it up to, the host copy writes no more bytes than
\* the staging crate's mapped size, and the region of the GPU copy
\* (staging_crate.size bytes from offset 0) is not larger than the size the
\* destination buffer was created with.  Stated for the fills whose staging
\* crate was created and whose copy was submitted.
C38_CopiesStayInsideBuffers ==
  ( /\ trace.op = "moss__fill_crate"
    /\ unit.out.staging_created.buffer = "live"
    /\ unit.out.staging_created.memory = "live"
    /\ \E i \in DOMAIN trace.calls : trace.calls[i] = <<"call", "vkQueueSubmit", "ok">> )
    => /\ unit.in.size <= unit.out.staging_created.size
       /\ unit.out.staging_created.size <= unit.in.buffer_size

\* The driver calls a moss__fill_crate call made after its staging crate
\* failed to be created: a copy command buffer, a submission, a wait.
CopyWork(calls) ==
  \E i \in DOMAIN calls :
    \/ calls[i][2] = "command_buffer"
    \/ calls[i][2] \in {"vkQueueSubmit", "vkQueueWaitIdle"}

\* The staging crate of the last moss__fill_crate call was not created.
StagingCreationFailed ==
  /\ trace.op = "moss__fill_crate"
  /\ ~( /\ unit.out.staging_created.buffer = "live"
        /\ unit.out.staging_created.memory = "live" )

\* C39: when the creation of the staging crate fails inside
\* moss__fill_crate, the fill returns Error and maps no memory, copies no
\* bytes and submits no copy command.
C39_FailedStagingStopsFill ==
  StagingCreationFailed
    => /\ trace.result = "Error"
       /\ ~CopyWork(trace.calls)

\* The fields of g_engine hold what the static initializer gave them.
EngineAsBeforeFirstInit ==
  /\ AllHandlesNull
  /\ swapchain_image_count = 0
  /\ swapchain_extent = <<0, 0>>
  /\ current_frame = 0
  /\ framebuffer_resize_requsted = FALSE
  /\ resources.buffer_sharing_mode = VK_SHARING_MODE_EXCLUSIVE
  /\ resources.shared_queue_family_index_count = 0

\* C40: after moss_engine_deinit every field of the engine state has the
\* value it had before the first init: all handles null, image count and
\* extent zero, current_frame 0, the resize flag false, the buffer sharing
\* mode EXCLUSIVE with no shared queue family index.
C40_DeinitRestoresInitialState ==
  [][ DeinitStep => EngineAsBeforeFirstInit' ]_vars

====
